---- MODULE Spec2Model ----
(***************************************************************************)
(* FullComponentStore / FullComponentWithLossStore of OGDF                 *)
(* (include/ogdf/internal/steinertree/FullComponentStore.h).               *)
(*                                                                         *)
(* The store keeps one compact graph m_graph shared by all full            *)
(* components, the two node mappings m_nodeCopy / m_nodeOrig and the       *)
(* metadata table m_components.  Graphs are modelled with OGDF's           *)
(* adjacency lists: every node has an ordered list of adjacency entries,   *)
(* an adjacency entry is an edge together with the side it sits on.        *)
(***************************************************************************)
EXTENDS Integers, Sequences, FiniteSets, TLC

VARIABLES
    m_graph,        \* the compact graph: nodes, edges, adjacency lists, id counters
    m_nodeCopy,     \* original node -> node of m_graph (or Null)
    m_nodeOrig,     \* node of m_graph -> original node
    m_components,   \* the metadata table (ArrayBuffer<Metadata<LossMetadata>>)
    m_lossTerminal, \* node of m_graph -> original terminal (or Null), once initialised
    pred,           \* predecessor edges of the last computeAllLosses call
    isLossEdge,     \* "is tree edge" flags of the last computeAllLosses call
    inserted,       \* history: for every table slot, what its insert call was given and created
    calls,          \* history: number of insert and computeAllLosses calls so far
    lastOp,         \* history: the operation that produced the current state
    lp              \* the status members of an abacus LP (optStat_, six SOLSTAT, nOpt_)

vars == <<m_graph, m_nodeCopy, m_nodeOrig, m_components, m_lossTerminal,
          pred, isLossEdge, inserted, calls, lastOp, lp>>

(***************************************************************************)
(* Bounds of the model                                                     *)
(***************************************************************************)
MaxInserts == 3
MaxLossRuns == 1
MaxOptimize == 2
MaxRepeats == 2
MaxFilled == 2

(***************************************************************************)
(* nullptr, and the original Steiner instance handed to the constructor    *)
(***************************************************************************)
Null == -1

OrigNodes == 1..8

\* the caller's terminal list, in list order
m_terminals == <<3, 1, 4, 2>>

\* the caller's incidence vector
m_isTerminal == [v \in OrigNodes |-> v \in {1, 2, 3, 4}]

Range(s) == {s[i] : i \in DOMAIN s}

(***************************************************************************)
(* Graph primitives (ogdf::Graph / EdgeWeightedGraph)                      *)
(***************************************************************************)
EmptyGraph ==
    [nodes |-> {}, edges |-> <<>>, adj |-> <<>>, nodeIdCount |-> 0, edgeIdCount |-> 0]

\* Graph::newNode: the new node gets the next node index and an empty adjacency list
newNode(G) ==
    [G EXCEPT !.nodes = @ \cup {G.nodeIdCount},
              !.adj = (G.nodeIdCount :> <<>>) @@ @,
              !.nodeIdCount = @ + 1]

adjSource(e) == [edge |-> e, side |-> "source"]
adjTarget(e) == [edge |-> e, side |-> "target"]
NoAdj == [edge |-> Null, side |-> "none"]

\* EdgeWeightedGraph::newEdge(v, w, weight): the new edge gets the next edge index;
\* its two adjacency entries are appended to the lists of v and of w
newEdge(G, v, w, weight) ==
    LET e == G.edgeIdCount
        adj1 == [G.adj EXCEPT ![v] = Append(@, adjSource(e))]
        adj2 == [adj1 EXCEPT ![w] = Append(@, adjTarget(e))]
    IN [G EXCEPT !.edges = (e :> [source |-> v, target |-> w, weight |-> weight]) @@ @,
                 !.adj = adj2,
                 !.edgeIdCount = @ + 1]

\* Graph::delEdge: unlink both adjacency entries and free the edge
delEdge(G, e) ==
    [G EXCEPT !.edges = [x \in (DOMAIN G.edges) \ {e} |-> G.edges[x]],
              !.adj = [v \in DOMAIN G.adj |-> SelectSeq(G.adj[v], LAMBDA a : a.edge # e)]]

RECURSIVE delEdges(_, _)
delEdges(G, es) ==
    IF es = <<>> THEN G ELSE delEdges(delEdge(G, Head(es)), Tail(es))

\* Graph::delNode: delete all incident edges, then free the node
delNode(G, v) ==
    LET G1 == delEdges(G, [i \in 1..Len(G.adj[v]) |-> G.adj[v][i].edge])
    IN [G1 EXCEPT !.nodes = @ \ {v},
                  !.adj = [x \in (DOMAIN G1.adj) \ {v} |-> G1.adj[x]]]

\* AdjElement::theEdge, twin, theNode, twinNode
theEdge(a) == a.edge
twin(a) == [a EXCEPT !.side = IF @ = "source" THEN "target" ELSE "source"]
theNode(G, a) ==
    IF a.side = "source" THEN G.edges[a.edge].source ELSE G.edges[a.edge].target
twinNode(G, a) == theNode(G, twin(a))

\* position of an adjacency entry in the adjacency list of its node
adjPos(G, a) ==
    LET L == G.adj[theNode(G, a)]
    IN CHOOSE i \in 1..Len(L) : L[i] = a

\* AdjElement::cyclicSucc: the successor in the adjacency list, wrapping around
cyclicSucc(G, a) ==
    LET L == G.adj[theNode(G, a)]
    IN L[(adjPos(G, a) % Len(L)) + 1]

\* EdgeElement::opposite
opposite(G, e, v) ==
    IF G.edges[e].source = v THEN G.edges[e].target ELSE G.edges[e].source

(***************************************************************************)
(* Construction                                                            *)
(***************************************************************************)
RECURSIVE constructTerminals(_, _)
constructTerminals(i, st) ==
    IF i > Len(m_terminals) THEN st
    ELSE LET v == m_terminals[i]
             u == st.G.nodeIdCount
         IN constructTerminals(i + 1,
                [G |-> newNode(st.G),
                 nodeCopy |-> [st.nodeCopy EXCEPT ![v] = u],
                 nodeOrig |-> (u :> v) @@ st.nodeOrig])

\* FullComponentStore::FullComponentStore
Constructed ==
    constructTerminals(1, [G |-> EmptyGraph,
                           nodeCopy |-> [v \in OrigNodes |-> Null],
                           nodeOrig |-> <<>>])

\* LossMetadata::LossMetadata
LossMetadata == [loss |-> 0, bridges |-> <<>>]

\* Metadata::Metadata
Metadata == [start |-> NoAdj, terminals |-> <<>>, cost |-> 0, extra |-> LossMetadata]

(***************************************************************************)
(* Input trees (EdgeWeightedGraphCopy): the nodes in iteration order, each *)
(* given by its original node, and the edges in iteration order, each      *)
(* given by the originals of its source and target and its weight          *)
(***************************************************************************)
Edge(u, v, w) == [source |-> u, target |-> v, weight |-> w]

CompNodes(comp) == Range(comp.nodes)

RECURSIVE reach(_, _)
reach(comp, S) ==
    LET S1 == S \cup {e.target : e \in {x \in Range(comp.edges) : x.source \in S}}
                 \cup {e.source : e \in {x \in Range(comp.edges) : x.target \in S}}
    IN IF S1 = S THEN S ELSE reach(comp, S1)

\* isTree(comp): connected with one edge less than nodes
isTree(comp) ==
    /\ Len(comp.nodes) >= 1
    /\ Len(comp.edges) = Len(comp.nodes) - 1
    /\ reach(comp, {comp.nodes[1]}) = CompNodes(comp)

\* number of edges of comp that are incident to original node v
degree(comp, v) ==
    Cardinality({i \in DOMAIN comp.edges :
                    comp.edges[i].source = v \/ comp.edges[i].target = v})

\* a full component: a tree with at least two terminals whose leaves are exactly
\* its terminals and whose non-terminal nodes have degree at least 3
IsFullComponent(comp) ==
    /\ isTree(comp)
    /\ Cardinality(CompNodes(comp)) = Len(comp.nodes)
    /\ Cardinality({v \in CompNodes(comp) : m_isTerminal[v]}) >= 2
    /\ \A v \in CompNodes(comp) :
          IF m_isTerminal[v] THEN degree(comp, v) = 1 ELSE degree(comp, v) >= 3

\* single edges <<source, target, weight>> between two terminals
EdgeInputs ==
    {[nodes |-> <<p[1], p[2]>>, edges |-> <<Edge(p[1], p[2], p[3])>>] :
        p \in {<<1, 2, 2>>, <<2, 1, 0>>, <<4, 3, 1>>}}

\* three terminals around one Steiner node
StarInputs ==
    {[nodes |-> <<5, 1, 2, 3>>, edges |-> <<Edge(5, 1, 2), Edge(2, 5, 3), Edge(5, 3, 4)>>],
     [nodes |-> <<3, 5, 1, 2>>, edges |-> <<Edge(1, 5, 0), Edge(5, 2, 0), Edge(3, 5, 0)>>]}

\* four terminals around two adjacent Steiner nodes
DoubleStarInputs ==
    {[nodes |-> <<5, 6, 1, 2, 3, 4>>,
      edges |-> <<Edge(1, 5, 1), Edge(5, 6, 2), Edge(5, 2, 1), Edge(6, 3, 1), Edge(4, 6, 0)>>],
     [nodes |-> <<4, 3, 6, 2, 1, 5>>,
      edges |-> <<Edge(6, 3, 1), Edge(4, 6, 1), Edge(1, 5, 1), Edge(2, 5, 1), Edge(6, 5, 1)>>]}

\* trees that pass the checks of insert without being full components
OtherTreeInputs ==
    {[nodes |-> <<1, 5, 2>>, edges |-> <<Edge(1, 5, 1), Edge(5, 2, 1)>>],
     [nodes |-> <<3>>, edges |-> <<>>]}

Inputs == EdgeInputs \cup StarInputs \cup DoubleStarInputs \cup OtherTreeInputs

\* inputs that are no trees: the empty graph, a forest of two edges, a triangle,
\* and a triangle beside a single node (one edge less than nodes, yet no tree)
RejectedInputs ==
    {[nodes |-> <<>>, edges |-> <<>>],
     [nodes |-> <<1, 2, 3, 4>>, edges |-> <<Edge(1, 2, 1), Edge(3, 4, 1)>>],
     [nodes |-> <<1, 5, 2>>, edges |-> <<Edge(1, 5, 1), Edge(5, 2, 1), Edge(2, 1, 1)>>],
     [nodes |-> <<1, 5, 2, 3>>, edges |-> <<Edge(1, 5, 1), Edge(5, 2, 1), Edge(2, 1, 1)>>]}

(***************************************************************************)
(* insert                                                                  *)
(***************************************************************************)
\* Array::quicksort with IndexComparer: ascending by node index
RECURSIVE quicksort(_)
quicksort(arr) ==
    IF Len(arr) <= 1 THEN arr
    ELSE LET p == arr[1]
             rest == Tail(arr)
         IN quicksort(SelectSeq(rest, LAMBDA x : x < p)) \o <<p>>
              \o quicksort(SelectSeq(rest, LAMBDA x : ~(x < p)))

\* insertNodes with a fault: a new node is given the input's first node as original
RECURSIVE insertNodesOrigFirst(_, _, _)
insertNodesOrigFirst(comp, i, st) ==
    IF i > Len(comp.nodes) THEN st
    ELSE LET vO == comp.nodes[i]
             vC == st.G.nodeIdCount
         IN IF st.nodeCopy[vO] = Null
            THEN insertNodesOrigFirst(comp, i + 1,
                    [st EXCEPT !.G = newNode(@),
                               !.nodeCopy[vO] = vC,
                               !.nodeOrig = (vC :> comp.nodes[1]) @@ @,
                               !.tempUse = Append(@, vO)])
            ELSE insertNodesOrigFirst(comp, i + 1,
                    [st EXCEPT !.terminals = Append(@, vO)])

\* first loop of insert: create the non-terminals, collect the terminals
RECURSIVE insertNodes(_, _, _)
insertNodes(comp, i, st) ==
    IF i > Len(comp.nodes) THEN st
    ELSE LET vO == comp.nodes[i]
             vC == st.G.nodeIdCount
         IN IF st.nodeCopy[vO] = Null
            THEN insertNodes(comp, i + 1,
                    [st EXCEPT !.G = newNode(@),
                               !.nodeCopy[vO] = vC,
                               !.nodeOrig = (vC :> vO) @@ @,
                               !.tempUse = Append(@, vO)])
            ELSE insertNodes(comp, i + 1,
                    [st EXCEPT !.terminals = Append(@, vO)])

\* startAfterEdge with a fault: the adjacency entry of the other end is taken
startAfterEdgeOtherEnd(start, eC, uO, vO) ==
    IF m_isTerminal[uO] THEN adjTarget(eC)
    ELSE IF m_isTerminal[vO] THEN adjSource(eC)
    ELSE start

\* startAfterEdge with a fault: a start that has been set is kept
startAfterEdgeFirst(start, eC, uO, vO) ==
    IF start # NoAdj THEN start
    ELSE IF m_isTerminal[uO] THEN adjSource(eC)
    ELSE IF m_isTerminal[vO] THEN adjTarget(eC)
    ELSE start

\* the start adjacency entry after the edge eC = (uO, vO) has been added
startAfterEdge(start, eC, uO, vO) ==
    IF m_isTerminal[uO] THEN adjSource(eC)
    ELSE IF m_isTerminal[vO] THEN adjTarget(eC)
    ELSE start

\* insertEdges with a fault: the cost is overwritten by each edge instead of added up
RECURSIVE insertEdgesLastCost(_, _, _)
insertEdgesLastCost(comp, i, st) ==
    IF i > Len(comp.edges) THEN st
    ELSE LET e == comp.edges[i]
             eC == st.G.edgeIdCount
         IN insertEdgesLastCost(comp, i + 1,
                [G |-> newEdge(st.G, st.nodeCopy[e.source], st.nodeCopy[e.target], e.weight),
                 nodeCopy |-> st.nodeCopy,
                 cost |-> e.weight,
                 start |-> startAfterEdge(st.start, eC, e.source, e.target)])

\* second loop of insert: copy the edges, add up the cost, find start
RECURSIVE insertEdges(_, _, _)
insertEdges(comp, i, st) ==
    IF i > Len(comp.edges) THEN st
    ELSE LET e == comp.edges[i]
             eC == st.G.edgeIdCount
         IN insertEdges(comp, i + 1,
                [G |-> newEdge(st.G, st.nodeCopy[e.source], st.nodeCopy[e.target], e.weight),
                 nodeCopy |-> st.nodeCopy,
                 cost |-> st.cost + e.weight,
                 start |-> startAfterEdge(st.start, eC, e.source, e.target)])

\* cleanupNodeCopy with a fault: the copies of the non-terminals are not forgotten
cleanupNodeCopyNone(nodeCopy, tempUse) == nodeCopy

\* cleanupNodeCopy with a fault: the cleanup forgets every copy, the terminals' too
cleanupNodeCopyAll(nodeCopy, tempUse) == [v \in DOMAIN nodeCopy |-> Null]

\* third loop of insert: forget the copies of the non-terminals
RECURSIVE cleanupNodeCopy(_, _)
cleanupNodeCopy(nodeCopy, tempUse) ==
    IF tempUse = <<>> THEN nodeCopy
    ELSE cleanupNodeCopy([nodeCopy EXCEPT ![Head(tempUse)] = Null], Tail(tempUse))

\* insert with a fault: the terminals are stored in the order found, unsorted
insertUnsorted(S, comp) ==
    LET n == insertNodes(comp, 1,
                [G |-> S.graph, nodeCopy |-> S.nodeCopy, nodeOrig |-> S.nodeOrig,
                 tempUse |-> <<>>, terminals |-> Metadata.terminals])
        e == insertEdges(comp, 1,
                [G |-> n.G, nodeCopy |-> n.nodeCopy,
                 cost |-> Metadata.cost, start |-> Metadata.start])
        data == [Metadata EXCEPT !.terminals = n.terminals,
                                 !.cost = e.cost,
                                 !.start = e.start]
    IN [graph |-> e.G,
        nodeCopy |-> cleanupNodeCopy(n.nodeCopy, n.tempUse),
        nodeOrig |-> n.nodeOrig,
        components |-> Append(S.components, data)]

\* insert with a fault: the new record takes the place of the last record, if any
insertReplaceLast(S, comp) ==
    LET R == insertUnsorted(S, comp)
        data == R.components[Len(R.components)]
        sorted == [data EXCEPT !.terminals = quicksort(@)]
    IN [R EXCEPT !.components =
            IF S.components = <<>> THEN <<sorted>>
            ELSE [S.components EXCEPT ![Len(S.components)] = sorted]]

\* insert with a fault: the new record is put in front of the table, not behind it
insertFront(S, comp) ==
    LET R == insertUnsorted(S, comp)
        data == R.components[Len(R.components)]
    IN [R EXCEPT !.components =
            <<[data EXCEPT !.terminals = quicksort(@)]>> \o S.components]

\* FullComponentStore::insert on the store S = [graph, nodeCopy, nodeOrig, components]
insert(S, comp) ==
    LET n == insertNodes(comp, 1,
                [G |-> S.graph, nodeCopy |-> S.nodeCopy, nodeOrig |-> S.nodeOrig,
                 tempUse |-> <<>>, terminals |-> Metadata.terminals])
        e == insertEdges(comp, 1,
                [G |-> n.G, nodeCopy |-> n.nodeCopy,
                 cost |-> Metadata.cost, start |-> Metadata.start])
        data == [Metadata EXCEPT !.terminals = quicksort(n.terminals),
                                 !.cost = e.cost,
                                 !.start = e.start]
    IN [graph |-> e.G,
        nodeCopy |-> cleanupNodeCopy(n.nodeCopy, n.tempUse),
        nodeOrig |-> n.nodeOrig,
        components |-> Append(S.components, data)]

(***************************************************************************)
(* Queries                                                                 *)
(***************************************************************************)
\* FullComponentStore::size, isEmpty
size == Len(m_components)
isEmpty == m_components = <<>>

\* FullComponentStore::terminals(id), cost(i), start(i) for a valid id (0-based)
terminals(id) == m_components[id + 1].terminals
cost(id) == m_components[id + 1].cost
start(id) == m_components[id + 1].start

\* Array::linearSearch: the first position of t (0-based), or -1
linearSearch(arr, t) ==
    IF \E i \in DOMAIN arr : arr[i] = t
    THEN (CHOOSE i \in DOMAIN arr : arr[i] = t /\ \A j \in 1..(i - 1) : arr[j] # t) - 1
    ELSE -1

\* FullComponentStore::isTerminal(id, t)
isTerminalIn(id, t) == linearSearch(m_components[id + 1].terminals, t) # -1

\* FullComponentStore::isTerminal(v) for a node v of the compact graph
isTerminal(nodeOrig, v) == m_isTerminal[nodeOrig[v]]

\* FullComponentStore::original
original(v) == m_nodeOrig[v]

Max(a, b) == IF a >= b THEN a ELSE b

(***************************************************************************)
(* remove                                                                  *)
(***************************************************************************)
\* removeStackSize with a fault: one slot per non-terminal node of a full component
removeStackSizeInner(comp) == Len(comp.terminals) - 2

\* the capacity of the BoundedStack of remove for the component record comp
removeStackSize(comp) == 2 * Len(comp.terminals) - 3

\* the nodes pushed for v: the opposite node of every adjacency entry of v, in list order
pushedNodes(G, v) == [i \in 1..Len(G.adj[v]) |-> twinNode(G, G.adj[v][i])]

\* removeWalk with a fault: the edges of a popped non-terminal are deleted, the
\* node itself is kept
RECURSIVE removeWalkEdgesOnly(_, _, _, _, _)
removeWalkEdgesOnly(G, nodeOrig, stack, maxStack, pops) ==
    IF stack = <<>> THEN [G |-> G, maxStack |-> maxStack, pops |-> pops]
    ELSE LET v == stack[Len(stack)]
             rest == SubSeq(stack, 1, Len(stack) - 1)
         IN IF ~isTerminal(nodeOrig, v)
            THEN LET grown == rest \o pushedNodes(G, v)
                 IN removeWalkEdgesOnly(
                        delEdges(G, [i \in 1..Len(G.adj[v]) |-> G.adj[v][i].edge]),
                        nodeOrig, grown, Max(maxStack, Len(grown)), pops + 1)
            ELSE removeWalkEdgesOnly(G, nodeOrig, rest, maxStack, pops + 1)

\* the while loop of remove; the top of the stack is its last element.
\* Returns the graph, the largest stack size seen and the number of pops.
RECURSIVE removeWalk(_, _, _, _, _)
removeWalk(G, nodeOrig, stack, maxStack, pops) ==
    IF stack = <<>> THEN [G |-> G, maxStack |-> maxStack, pops |-> pops]
    ELSE LET v == stack[Len(stack)]
             rest == SubSeq(stack, 1, Len(stack) - 1)
         IN IF ~isTerminal(nodeOrig, v)
            THEN LET grown == rest \o pushedNodes(G, v)
                 IN removeWalk(delNode(G, v), nodeOrig, grown,
                               Max(maxStack, Len(grown)), pops + 1)
            ELSE removeWalk(G, nodeOrig, rest, maxStack, pops + 1)

\* removeInGraph with a fault: the single edge of a two-terminal component is kept
removeInGraphKeepEdge(G, nodeOrig, comp) ==
    IF Len(comp.terminals) = 2
    THEN [G |-> G, maxStack |-> 0, pops |-> 0]
    ELSE removeWalk(delEdge(G, theEdge(comp.start)), nodeOrig,
                    <<twinNode(G, comp.start)>>, 1, 0)

\* removeInGraph with a fault: only the start edge is deleted, whatever the size
removeInGraphEdgeOnly(G, nodeOrig, comp) ==
    [G |-> delEdge(G, theEdge(comp.start)), maxStack |-> 0, pops |-> 0]

\* removeInGraph with a fault: the node of start is pushed as well
removeInGraphPushStart(G, nodeOrig, comp) ==
    IF Len(comp.terminals) = 2
    THEN [G |-> delEdge(G, theEdge(comp.start)), maxStack |-> 0, pops |-> 0]
    ELSE removeWalk(delEdge(G, theEdge(comp.start)), nodeOrig,
                    <<theNode(G, comp.start), twinNode(G, comp.start)>>, 2, 0)

\* the graph surgery of remove for the component record comp
removeInGraph(G, nodeOrig, comp) ==
    IF Len(comp.terminals) = 2
    THEN [G |-> delEdge(G, theEdge(comp.start)), maxStack |-> 0, pops |-> 0]
    ELSE removeWalk(delEdge(G, theEdge(comp.start)), nodeOrig,
                    <<twinNode(G, comp.start)>>, 1, 0)

\* popRemove with a fault: the records after slot id move down by one
popRemoveShift(buf, id) == SubSeq(buf, 1, id) \o SubSeq(buf, id + 2, Len(buf))

\* popRemove with a fault: the last record is moved to the front of the table
popRemoveLastToFront(buf, id) ==
    IF Len(buf) = id + 1
    THEN SubSeq(buf, 1, Len(buf) - 1)
    ELSE <<buf[Len(buf)]>> \o SubSeq(buf, 1, id) \o SubSeq(buf, id + 2, Len(buf) - 1)

\* the table update of remove: drop the last record, or move it into slot id
popRemove(buf, id) ==
    IF Len(buf) = id + 1
    THEN SubSeq(buf, 1, Len(buf) - 1)
    ELSE [SubSeq(buf, 1, Len(buf) - 1) EXCEPT ![id + 1] = buf[Len(buf)]]

\* FullComponentStore::remove on the store S = [graph, nodeCopy, nodeOrig, components]
remove(S, id) ==
    [S EXCEPT !.graph = removeInGraph(S.graph, S.nodeOrig, S.components[id + 1]).G,
              !.components = popRemove(S.components, id)]

(***************************************************************************)
(* foreachAdjEntry                                                         *)
(***************************************************************************)
\* adjEntryStackSize with a fault: one slot per non-terminal node of a full component
adjEntryStackSizeInner(comp) == Len(comp.terminals) - 2

\* the capacity of the BoundedStack of foreachAdjEntry for the component record comp
adjEntryStackSize(comp) == 2 * Len(comp.terminals) - 2

\* pushedAdjEntries with a fault: only the first successor is pushed
pushedAdjEntriesOne(G, back, adj, acc) ==
    IF adj = back THEN acc ELSE <<adj>>

\* the entries pushed after visiting back: back->cyclicSucc() and on, until back again
RECURSIVE pushedAdjEntries(_, _, _, _)
pushedAdjEntries(G, back, adj, acc) ==
    IF adj = back THEN acc
    ELSE pushedAdjEntries(G, back, cyclicSucc(G, adj), Append(acc, adj))

\* adjWalk with a fault: the popped handle itself is passed on, not its twin
RECURSIVE adjWalkNoTwin(_, _, _, _, _)
adjWalkNoTwin(G, nodeOrig, stack, visits, maxStack) ==
    IF stack = <<>> THEN [visits |-> visits, maxStack |-> maxStack]
    ELSE LET back == stack[Len(stack)]
             rest == SubSeq(stack, 1, Len(stack) - 1)
             grown == IF ~isTerminal(nodeOrig, theNode(G, back))
                      THEN rest \o pushedAdjEntries(G, back, cyclicSucc(G, back), <<>>)
                      ELSE rest
         IN adjWalkNoTwin(G, nodeOrig, grown, Append(visits, back), Max(maxStack, Len(grown)))

\* the while loop of foreachAdjEntry; the top of the stack is its last element.
\* Returns the entries passed to f in order and the largest stack size seen.
RECURSIVE adjWalk(_, _, _, _, _)
adjWalk(G, nodeOrig, stack, visits, maxStack) ==
    IF stack = <<>> THEN [visits |-> visits, maxStack |-> maxStack]
    ELSE LET back == twin(stack[Len(stack)])
             rest == SubSeq(stack, 1, Len(stack) - 1)
             grown == IF ~isTerminal(nodeOrig, theNode(G, back))
                      THEN rest \o pushedAdjEntries(G, back, cyclicSucc(G, back), <<>>)
                      ELSE rest
         IN adjWalk(G, nodeOrig, grown, Append(visits, back), Max(maxStack, Len(grown)))

\* foreachAdjEntry with a fault: a single edge is visited by start itself, not its twin
foreachAdjEntryStart(G, nodeOrig, comp) ==
    IF Len(comp.terminals) = 2
    THEN [visits |-> <<comp.start>>, maxStack |-> 0]
    ELSE adjWalk(G, nodeOrig, <<comp.start>>, <<>>, 1)

\* FullComponentStore::foreachAdjEntry for the component record comp
foreachAdjEntry(G, nodeOrig, comp) ==
    IF Len(comp.terminals) = 2
    THEN [visits |-> <<twin(comp.start)>>, maxStack |-> 0]
    ELSE adjWalk(G, nodeOrig, <<comp.start>>, <<>>, 1)

\* the entries foreachAdjEntry(id, f) passes to f in the current state
visitedAdjEntries(id) == foreachAdjEntry(m_graph, m_nodeOrig, m_components[id + 1]).visits

(***************************************************************************)
(* foreachNode (the variant without pred)                                  *)
(***************************************************************************)
\* foreachNode with a fault: the node a handle was reached from is passed, not
\* the node it sits on
foreachNodeNear(G, nodeOrig, comp) ==
    LET v == foreachAdjEntry(G, nodeOrig, comp).visits
    IN <<nodeOrig[theNode(G, comp.start)]>>
         \o [k \in 1..Len(v) |-> nodeOrig[twinNode(G, v[k])]]

\* FullComponentStore::foreachNode(id, f) for the component record comp: the
\* original nodes passed to f, in order
foreachNode(G, nodeOrig, comp) ==
    LET v == foreachAdjEntry(G, nodeOrig, comp).visits
    IN <<nodeOrig[theNode(G, comp.start)]>>
         \o [k \in 1..Len(v) |-> nodeOrig[theNode(G, v[k])]]

\* the original nodes foreachNode(id, f) passes to f in the current state
visitedNodes(id) == foreachNode(m_graph, m_nodeOrig, m_components[id + 1])

(***************************************************************************)
(* computeMinST: a minimum spanning tree of the part of G reachable from   *)
(* the root s, as predecessor edges towards s and a flag per edge.  Edges  *)
(* of equal weight leave the choice of the tree open, so the operator      *)
(* yields every tree Prim's algorithm may grow from s.                     *)
(***************************************************************************)
crossingEdges(G, visited) ==
    {e \in DOMAIN G.edges :
        (G.edges[e].source \in visited) # (G.edges[e].target \in visited)}

lightest(G, es) ==
    {e \in es : \A x \in es : G.edges[e].weight <= G.edges[x].weight}

primStep(G, c) ==
    IF crossingEdges(G, c.visited) = {} THEN {c}
    ELSE {[visited |-> c.visited \cup {G.edges[e].source, G.edges[e].target},
           pred |-> [c.pred EXCEPT
                        ![IF G.edges[e].source \in c.visited
                          THEN G.edges[e].target ELSE G.edges[e].source] = e]] :
            e \in lightest(G, crossingEdges(G, c.visited))}

RECURSIVE primTrees(_, _)
primTrees(G, C) ==
    IF \A c \in C : crossingEdges(G, c.visited) = {} THEN C
    ELSE primTrees(G, UNION {primStep(G, c) : c \in C})

computeMinST(s, G) ==
    {[pred |-> c.pred,
      isInTree |-> [e \in DOMAIN G.edges |-> \E v \in DOMAIN c.pred : c.pred[v] = e]] :
        c \in primTrees(G, {[visited |-> {s},
                             pred |-> [v \in 0..(G.nodeIdCount - 1) |-> Null]]})}

(***************************************************************************)
(* computeAllLosses                                                        *)
(***************************************************************************)
\* findLossTerminal with a fault: an unresolved node is given the root terminal
findLossTerminalRoot(G, u, pr, lt) ==
    IF lt[u] = Null /\ pr[u] # Null
    THEN [lt |-> [lt EXCEPT ![u] = m_terminals[1]], res |-> m_terminals[1]]
    ELSE [lt |-> lt, res |-> lt[u]]

\* FullComponentWithLossStore::findLossTerminal; returns the updated m_lossTerminal
\* and the returned node
RECURSIVE findLossTerminal(_, _, _, _)
findLossTerminal(G, u, pr, lt) ==
    IF lt[u] = Null /\ pr[u] # Null
    THEN LET r == findLossTerminal(G, opposite(G, pr[u], u), pr, lt)
         IN [lt |-> [r.lt EXCEPT ![u] = r.res], res |-> r.res]
    ELSE [lt |-> lt, res |-> lt[u]]

\* addZeroEdges with a fault: the edges that join the terminals have weight 1
RECURSIVE addZeroEdgesUnitWeight(_, _, _, _)
addZeroEdgesUnitWeight(i, sC, nodeCopy, st) ==
    IF i > Len(m_terminals) THEN st
    ELSE LET v == m_terminals[i]
             vC == nodeCopy[v]
         IN addZeroEdgesUnitWeight(i + 1, sC, nodeCopy,
                [G |-> newEdge(st.G, sC, vC, 1),
                 lossTerminal |-> [st.lossTerminal EXCEPT ![vC] = v],
                 zeroEdges |-> Append(st.zeroEdges, st.G.edgeIdCount)])

\* the loop over the terminals after the first: map them and join them to sC
RECURSIVE addZeroEdges(_, _, _, _)
addZeroEdges(i, sC, nodeCopy, st) ==
    IF i > Len(m_terminals) THEN st
    ELSE LET v == m_terminals[i]
             vC == nodeCopy[v]
         IN addZeroEdges(i + 1, sC, nodeCopy,
                [G |-> newEdge(st.G, sC, vC, 0),
                 lossTerminal |-> [st.lossTerminal EXCEPT ![vC] = v],
                 zeroEdges |-> Append(st.zeroEdges, st.G.edgeIdCount)])

\* classifyEdge with a fault: the weight of a loss edge is not added to loss
classifyEdgeNoLoss(G, pr, isLoss, st, id, adj) ==
    LET e == theEdge(adj)
    IN IF ~isLoss[e]
       THEN LET l1 == findLossTerminal(G, G.edges[e].source, pr, st.lossTerminal).lt
                l2 == findLossTerminal(G, G.edges[e].target, pr, l1).lt
            IN [components |-> [st.components EXCEPT ![id + 1].extra.bridges = Append(@, e)],
                lossTerminal |-> l2]
       ELSE st

\* classifyEdge with a fault: the end nodes of a bridge are not resolved
classifyEdgeNoFind(G, pr, isLoss, st, id, adj) ==
    LET e == theEdge(adj)
    IN IF ~isLoss[e]
       THEN [st EXCEPT !.components[id + 1].extra.bridges = Append(@, e)]
       ELSE [st EXCEPT !.components[id + 1].extra.loss = @ + G.edges[e].weight]

\* classifyEdge with a fault: the test of isLossEdge is inverted
classifyEdgeInverted(G, pr, isLoss, st, id, adj) ==
    LET e == theEdge(adj)
    IN IF isLoss[e]
       THEN LET l1 == findLossTerminal(G, G.edges[e].source, pr, st.lossTerminal).lt
                l2 == findLossTerminal(G, G.edges[e].target, pr, l1).lt
            IN [components |-> [st.components EXCEPT ![id + 1].extra.bridges = Append(@, e)],
                lossTerminal |-> l2]
       ELSE [st EXCEPT !.components[id + 1].extra.loss = @ + G.edges[e].weight]

\* the function passed to foreachAdjEntry, applied to one adjacency entry of component id
classifyEdge(G, pr, isLoss, st, id, adj) ==
    LET e == theEdge(adj)
    IN IF ~isLoss[e]
       THEN LET l1 == findLossTerminal(G, G.edges[e].source, pr, st.lossTerminal).lt
                l2 == findLossTerminal(G, G.edges[e].target, pr, l1).lt
            IN [components |-> [st.components EXCEPT ![id + 1].extra.bridges = Append(@, e)],
                lossTerminal |-> l2]
       ELSE [st EXCEPT !.components[id + 1].extra.loss = @ + G.edges[e].weight]

RECURSIVE classifyEdges(_, _, _, _, _, _)
classifyEdges(G, pr, isLoss, st, id, visits) ==
    IF visits = <<>> THEN st
    ELSE classifyEdges(G, pr, isLoss,
                       classifyEdge(G, pr, isLoss, st, id, Head(visits)), id, Tail(visits))

\* the loop over all component ids
RECURSIVE lossLoop(_, _, _, _, _, _)
lossLoop(G, nodeOrig, pr, isLoss, st, id) ==
    IF id >= Len(st.components) THEN st
    ELSE lossLoop(G, nodeOrig, pr, isLoss,
             classifyEdges(G, pr, isLoss, st, id,
                           foreachAdjEntry(G, nodeOrig, st.components[id + 1]).visits),
             id + 1)

\* the graph with the zero-cost edges and the terminals' loss terminals set
lossSetup(S) ==
    LET s == m_terminals[1]
        sC == S.nodeCopy[s]
    IN addZeroEdges(2, sC, S.nodeCopy,
          [G |-> S.graph,
           lossTerminal |-> [[v \in 0..(S.graph.nodeIdCount - 1) |-> Null] EXCEPT ![sC] = s],
           zeroEdges |-> <<>>])

\* computeAllLosses with a fault: the zero-cost edges are not removed again
computeAllLossesKeepZeroEdges(S, mst) ==
    LET z == lossSetup(S)
        r == lossLoop(z.G, S.nodeOrig, mst.pred, mst.isInTree,
                      [components |-> S.components, lossTerminal |-> z.lossTerminal], 0)
    IN [graph |-> z.G, components |-> r.components, lossTerminal |-> r.lossTerminal]

\* computeAllLosses with a fault: the loss data of every record are reset first
computeAllLossesReset(S, mst) ==
    LET z == lossSetup(S)
        G == delEdges(z.G, z.zeroEdges)
        r == lossLoop(G, S.nodeOrig, mst.pred, mst.isInTree,
                      [components |-> [i \in DOMAIN S.components |->
                                          [S.components[i] EXCEPT !.extra = LossMetadata]],
                       lossTerminal |-> z.lossTerminal], 0)
    IN [graph |-> G, components |-> r.components, lossTerminal |-> r.lossTerminal]

\* FullComponentWithLossStore::computeAllLosses on the store S with the spanning tree mst
\* computed for the graph of lossSetup(S)
computeAllLosses(S, mst) ==
    LET z == lossSetup(S)
        G == delEdges(z.G, z.zeroEdges)
        r == lossLoop(G, S.nodeOrig, mst.pred, mst.isInTree,
                      [components |-> S.components, lossTerminal |-> z.lossTerminal], 0)
    IN [graph |-> G, components |-> r.components, lossTerminal |-> r.lossTerminal]

(***************************************************************************)
(* abacus LP (include/ogdf/lib/abacus/lp.h): the optimization status, the  *)
(* availability statuses of the parts of the solution and the number of    *)
(* optimizations.  The matrix itself is kept by the solver behind the pure *)
(* virtual functions with the prefix _.                                    *)
(***************************************************************************)
OPTSTAT ==
    {"Optimal", "Unoptimized", "Error", "Feasible", "Infeasible", "Unbounded", "LimitReached"}

SOLSTAT == {"Available", "Missing"}

\* LP::LP
LP ==
    [optStat |-> "Unoptimized",
     xValStatus |-> "Missing", barXValStatus |-> "Missing", yValStatus |-> "Missing",
     recoStatus |-> "Missing", slackStatus |-> "Missing", basisStatus |-> "Missing",
     nOpt |-> 0]

\* initPostOpt with a fault: the availability of the basis is not reset
initPostOptKeepBasis(l) ==
    [l EXCEPT !.optStat = "Unoptimized",
              !.xValStatus = "Missing", !.barXValStatus = "Missing",
              !.recoStatus = "Missing",
              !.slackStatus = "Missing", !.yValStatus = "Missing"]

\* LP::initPostOpt
initPostOpt(l) ==
    [l EXCEPT !.optStat = "Unoptimized",
              !.xValStatus = "Missing", !.barXValStatus = "Missing",
              !.recoStatus = "Missing",
              !.slackStatus = "Missing", !.yValStatus = "Missing",
              !.basisStatus = "Missing"]

\* LP::remRows, remCols, changeRhs: initPostOpt(), then the solver's _remRows,
\* _remCols, _changeRhs, which change the matrix and none of the members
remRows(l) == initPostOpt(l)
remCols(l) == initPostOpt(l)
changeRhs(l) == initPostOpt(l)

\* LP::optimize: one more optimization; the solver leaves any optimization
\* status and makes any parts of the solution available
optimize(l) ==
    {[optStat |-> o, xValStatus |-> x, barXValStatus |-> b, yValStatus |-> y,
      recoStatus |-> r, slackStatus |-> sl, basisStatus |-> ba, nOpt |-> l.nOpt + 1] :
        o \in OPTSTAT, x \in SOLSTAT, b \in SOLSTAT, y \in SOLSTAT,
        r \in SOLSTAT, sl \in SOLSTAT, ba \in SOLSTAT}

(***************************************************************************)
(* The state machine                                                       *)
(***************************************************************************)
Store ==
    [graph |-> m_graph, nodeCopy |-> m_nodeCopy, nodeOrig |-> m_nodeOrig,
     components |-> m_components]

\* what a call hands back to its caller: nothing (a void method), a value, or
\* no value at all because an OGDF_ASSERT failed
Void == <<>>
Returned(x) == <<x>>
AssertionFailed == <<"OGDF_ASSERT", "failed">>

\* what lastOp records: the operation, its id, for remove the history entry of
\* the removed record, and what the call handed back (insert, remove and
\* computeAllLosses are void methods)
Op(name, id, arg) == [op |-> name, id |-> id, arg |-> arg, ret |-> Void]

Init ==
    /\ m_graph = Constructed.G
    /\ m_nodeCopy = Constructed.nodeCopy
    /\ m_nodeOrig = Constructed.nodeOrig
    /\ m_components = <<>>
    /\ m_lossTerminal = <<>>
    /\ pred = <<>>
    /\ isLossEdge = <<>>
    /\ inserted = <<>>
    /\ calls = [insert |-> 0, loss |-> 0]
    /\ lp = LP
    /\ lastOp = Op("construct", Null, Null)

\* insertChecks with a fault: only emptiness is checked
insertChecksNonEmpty(comp) == Len(comp.nodes) > 0

\* the two assertions at the head of insert
insertChecks(comp) ==
    /\ Len(comp.nodes) > 0
    /\ isTree(comp)

\* insert(comp) for an input that passes its two assertions
Insert(comp) ==
    /\ calls.insert < MaxInserts
    /\ insertChecks(comp)
    /\ LET S == insert(Store, comp)
       IN /\ m_graph' = S.graph
          /\ m_nodeCopy' = S.nodeCopy
          /\ m_nodeOrig' = S.nodeOrig
          /\ m_components' = S.components
          /\ m_lossTerminal' =
                IF calls.loss = 0 THEN m_lossTerminal
                ELSE [v \in 0..(S.graph.nodeIdCount - 1) |->
                        IF v \in DOMAIN m_lossTerminal THEN m_lossTerminal[v] ELSE Null]
          /\ inserted' = Append(inserted,
                [uid |-> calls.insert, comp |-> comp,
                 nodes |-> S.graph.nodes \ m_graph.nodes,
                 edges |-> (DOMAIN S.graph.edges) \ (DOMAIN m_graph.edges)])
    /\ calls' = [calls EXCEPT !.insert = @ + 1]
    /\ lastOp' = Op("insert", Len(m_components), Null)
    /\ UNCHANGED <<pred, isLossEdge, lp>>

\* remove(id) for a valid id; a record without start cannot be removed (null dereference)
Remove(id) ==
    /\ id \in 0..(size - 1)
    /\ start(id) # NoAdj
    /\ LET S == remove(Store, id)
       IN /\ m_graph' = S.graph
          /\ m_components' = S.components
    /\ inserted' = popRemove(inserted, id)
    /\ lastOp' = Op("remove", id, inserted[id + 1])
    /\ UNCHANGED <<m_nodeCopy, m_nodeOrig, m_lossTerminal, pred, isLossEdge, calls, lp>>

\* computeAllLosses() as one of at most n calls; a record without start stops the
\* traversal (null dereference)
ComputeAllLossesUpTo(n) ==
    /\ calls.loss < n
    /\ \A id \in 0..(size - 1) : start(id) # NoAdj
    /\ \E mst \in computeMinST(m_nodeCopy[m_terminals[1]], lossSetup(Store).G) :
          LET S == computeAllLosses(Store, mst)
          IN /\ m_graph' = S.graph
             /\ m_components' = S.components
             /\ m_lossTerminal' = S.lossTerminal
             /\ pred' = mst.pred
             /\ isLossEdge' = mst.isInTree
    /\ calls' = [calls EXCEPT !.loss = @ + 1]
    /\ lastOp' = Op("computeAllLosses", Null, Null)
    /\ UNCHANGED <<m_nodeCopy, m_nodeOrig, inserted, lp>>

ComputeAllLosses == ComputeAllLossesUpTo(MaxLossRuns)

Next ==
    \/ \E comp \in Inputs : Insert(comp)
    \/ \E id \in 0..(size - 1) : Remove(id)
    \/ ComputeAllLosses

Spec == Init /\ [][Next]_vars

(***************************************************************************)
(* The queries with their assertions, and the calls of insert that fail    *)
(***************************************************************************)
\* checked with a fault: the assertions are missing, an invalid call hands back nullptr
checkedNot(ok, value) == IF ok THEN Returned(value) ELSE Returned(Null)

\* OGDF_ASSERT(ok) followed by `return value`
checked(ok, value) == IF ok THEN Returned(value) ELSE AssertionFailed

\* OGDF_ASSERT(id >= 0); OGDF_ASSERT(id < m_components.size())
validId(id) == id >= 0 /\ id < size

\* m_nodeOrig[v] != nullptr
hasOriginal(v) == v \in DOMAIN m_nodeOrig /\ m_nodeOrig[v] # Null

QueryNames == {"terminals", "isTerminal", "cost", "start", "original"}

\* the call name(x) or name(x, t) in the current state
query(name, x, t) ==
    CASE name = "terminals" -> checked(validId(x), terminals(x))
      [] name = "isTerminal" -> checked(validId(x), isTerminalIn(x, t))
      [] name = "cost" -> checked(validId(x), cost(x))
      [] name = "start" -> checked(validId(x), start(x))
      [] name = "original" -> checked(hasOriginal(x), original(x))

\* the arguments the calls are tried with: every id from -1 to size, every node
\* index from -1 to the first index not yet given to a node
QueryArgs(name) ==
    IF name = "original" THEN (-1..m_graph.nodeIdCount) \X {Null}
    ELSE IF name = "isTerminal" THEN (-1..size) \X {1, 5}
    ELSE (-1..size) \X {Null}

\* a call of one of the const queries
Query(name, x, t) ==
    /\ lastOp' = [Op(name, x, t) EXCEPT !.ret = query(name, x, t)]
    /\ UNCHANGED <<m_graph, m_nodeCopy, m_nodeOrig, m_components, m_lossTerminal,
                   pred, isLossEdge, inserted, calls, lp>>

\* insert(comp) for an input that fails one of its two assertions
InsertFails(comp) ==
    /\ ~insertChecks(comp)
    /\ lastOp' = [Op("insert", size, comp) EXCEPT !.ret = AssertionFailed]
    /\ UNCHANGED <<m_graph, m_nodeCopy, m_nodeOrig, m_components, m_lossTerminal,
                   pred, isLossEdge, inserted, calls, lp>>

\* a call of insert with any input
InsertCall(comp) == Insert(comp) \/ InsertFails(comp)

NextCalls ==
    \/ \E comp \in Inputs \cup RejectedInputs : InsertCall(comp)
    \/ \E id \in 0..(size - 1) : Remove(id)
    \/ \E name \in QueryNames : \E a \in QueryArgs(name) : Query(name, a[1], a[2])

SpecCalls == Init /\ [][NextCalls]_vars

(***************************************************************************)
(* foreachEdge and foreachNode with pred: the expansion of a component in  *)
(* the original graph.  The caller hands in pred, where pred[u][v] is the  *)
(* edge of the original graph that leads from v one step towards u on a    *)
(* shortest path, and nullptr for v = u and in rows that are not filled.   *)
(***************************************************************************)
\* the edges of the original graph, all of length 1; the edge ids are the positions
origEdges ==
    <<[source |-> 1, target |-> 5], [source |-> 5, target |-> 2],
      [source |-> 5, target |-> 7], [source |-> 7, target |-> 6],
      [source |-> 6, target |-> 3], [source |-> 6, target |-> 4],
      [source |-> 1, target |-> 8], [source |-> 8, target |-> 2]>>

\* EdgeElement::opposite in the original graph
origOpposite(e, v) ==
    IF origEdges[e].source = v THEN origEdges[e].target ELSE origEdges[e].source

\* the nodes within k steps of u
RECURSIVE ball(_, _)
ball(u, k) ==
    IF k = 0 THEN {u}
    ELSE LET B == ball(u, k - 1)
         IN B \cup {w \in OrigNodes : \E e \in DOMAIN origEdges, v \in B :
                        /\ v \in {origEdges[e].source, origEdges[e].target}
                        /\ w = origOpposite(e, v)}

\* the number of edges of a shortest path between u and v
dist(u, v) ==
    CHOOSE k \in 0..Len(origEdges) :
        v \in ball(u, k) /\ \A j \in 0..(k - 1) : v \notin ball(u, j)

\* the edges that lead from v one step towards u
towards(u, v) ==
    {e \in DOMAIN origEdges :
        /\ v \in {origEdges[e].source, origEdges[e].target}
        /\ dist(u, origOpposite(e, v)) + 1 = dist(u, v)}

\* shortest-path predecessors; among several edges the one with the lowest id
predLowest ==
    [u \in OrigNodes |-> [v \in OrigNodes |->
        IF v = u THEN Null
        ELSE CHOOSE e \in towards(u, v) : \A x \in towards(u, v) : e <= x]]

\* shortest-path predecessors; among several edges the one with the highest id
predHighest ==
    [u \in OrigNodes |-> [v \in OrigNodes |->
        IF v = u THEN Null
        ELSE CHOOSE e \in towards(u, v) : \A x \in towards(u, v) : e >= x]]

\* a table in which only the rows of the terminals are filled
terminalRows(P) ==
    [u \in OrigNodes |-> [v \in OrigNodes |-> IF m_isTerminal[u] THEN P[u][v] ELSE Null]]

\* the tables handed in as argument pred
PredTables == <<predLowest, predHighest, terminalRows(predLowest)>>

\* for (node v = v0; pred[u][v]; v = pred[u][v]->opposite(v)): the edge pred[u][v]
\* and the node v of every round of the loop
RECURSIVE predLoop(_, _, _)
predLoop(P, u, v) ==
    IF P[u][v] = Null THEN <<>>
    ELSE <<[edge |-> P[u][v], node |-> v]>> \o predLoop(P, u, origOpposite(P[u][v], v))

\* foreachEdge with a fault: the row is taken from the node the handle sits on
\* and the walk starts at the node the handle points back to
foreachEdgeFromFar(G, nodeOrig, comp, P) ==
    LET h == foreachAdjEntry(G, nodeOrig, comp).visits
    IN [first |-> Null,
        calls |-> [k \in 1..Len(h) |->
            LET u == nodeOrig[theNode(G, h[k])]
                l == predLoop(P, u, nodeOrig[twinNode(G, h[k])])
            IN [back |-> h[k], row |-> u, visits |-> [j \in 1..Len(l) |-> l[j].edge]]]]

\* FullComponentStore::foreachEdge(id, pred, f) for the component record comp:
\* for every handle of foreachAdjEntry the row of pred that is read and the
\* edges passed to f, in order
foreachEdge(G, nodeOrig, comp, P) ==
    LET h == foreachAdjEntry(G, nodeOrig, comp).visits
    IN [first |-> Null,
        calls |-> [k \in 1..Len(h) |->
            LET u == nodeOrig[twinNode(G, h[k])]
                l == predLoop(P, u, nodeOrig[theNode(G, h[k])])
            IN [back |-> h[k], row |-> u, visits |-> [j \in 1..Len(l) |-> l[j].edge]]]]

\* while (v != u) { v = pred[u][v]->opposite(v); f(v); }: the nodes passed to f;
\* a nullptr entry off u is dereferenced, which is shown as a last element Null
RECURSIVE hubWalk(_, _, _)
hubWalk(P, u, v) ==
    IF v = u THEN <<>>
    ELSE IF P[u][v] = Null THEN <<Null>>
    ELSE LET w == origOpposite(P[u][v], v)
         IN <<w>> \o hubWalk(P, u, w)

\* foreachNode(id, pred, f), the variant for three terminals: the original of
\* c = start->twinNode() first, then for every adjacency entry of c the walk to
\* the original of its other end
foreachNodeThree(G, nodeOrig, comp, P) ==
    LET c == twinNode(G, comp.start)
    IN [first |-> nodeOrig[c],
        calls |-> [k \in 1..Len(G.adj[c]) |->
            LET u == nodeOrig[twinNode(G, G.adj[c][k])]
            IN [back |-> G.adj[c][k], row |-> u, visits |-> hubWalk(P, u, nodeOrig[c])]]]

\* foreachNodeGeneral with a fault: the walk does not stop before u
foreachNodeGeneralUntilU(G, nodeOrig, comp, P) ==
    LET h == foreachAdjEntry(G, nodeOrig, comp).visits
    IN [first |-> nodeOrig[theNode(G, comp.start)],
        calls |-> [k \in 1..Len(h) |->
            LET u == nodeOrig[twinNode(G, h[k])]
                l == predLoop(P, u, nodeOrig[theNode(G, h[k])])
            IN [back |-> h[k], row |-> u,
                visits |-> [j \in 1..Len(l) |-> l[j].node] \o <<u>>]]]

\* foreachNode(id, pred, f), the general variant: the original of start's node
\* first, then for every handle of foreachAdjEntry the nodes v of the loop
foreachNodeGeneral(G, nodeOrig, comp, P) ==
    LET h == foreachAdjEntry(G, nodeOrig, comp).visits
    IN [first |-> nodeOrig[theNode(G, comp.start)],
        calls |-> [k \in 1..Len(h) |->
            LET u == nodeOrig[twinNode(G, h[k])]
                l == predLoop(P, u, nodeOrig[theNode(G, h[k])])
            IN [back |-> h[k], row |-> u, visits |-> [j \in 1..Len(l) |-> l[j].node]]]]

\* foreachNodePred with a fault: no variant of its own for three terminals
foreachNodePredOneVariant(G, nodeOrig, comp, P) ==
    foreachNodeGeneral(G, nodeOrig, comp, P)

\* FullComponentStore::foreachNode(id, pred, f) for the component record comp
foreachNodePred(G, nodeOrig, comp, P) ==
    IF Len(comp.terminals) = 3
    THEN foreachNodeThree(G, nodeOrig, comp, P)
    ELSE foreachNodeGeneral(G, nodeOrig, comp, P)

\* foreachEdge(id, pred, f) for a valid id; a record without start cannot be
\* traversed (null dereference)
ForeachEdge(id, p) ==
    /\ id \in 0..(size - 1)
    /\ start(id) # NoAdj
    /\ lastOp' = [Op("foreachEdge", id, p) EXCEPT
                     !.ret = Returned(foreachEdge(m_graph, m_nodeOrig,
                                                  m_components[id + 1], PredTables[p]))]
    /\ UNCHANGED <<m_graph, m_nodeCopy, m_nodeOrig, m_components, m_lossTerminal,
                   pred, isLossEdge, inserted, calls, lp>>

\* foreachNode(id, pred, f) for a valid id whose walk dereferences no nullptr
ForeachNode(id, p) ==
    /\ id \in 0..(size - 1)
    /\ start(id) # NoAdj
    /\ LET r == foreachNodePred(m_graph, m_nodeOrig, m_components[id + 1], PredTables[p])
       IN /\ \A k \in DOMAIN r.calls : Null \notin Range(r.calls[k].visits)
          /\ lastOp' = [Op("foreachNode", id, p) EXCEPT !.ret = Returned(r)]
    /\ UNCHANGED <<m_graph, m_nodeCopy, m_nodeOrig, m_components, m_lossTerminal,
                   pred, isLossEdge, inserted, calls, lp>>

NextExpand ==
    \/ \E comp \in Inputs : Insert(comp)
    \/ \E id \in 0..(size - 1) : Remove(id)
    \/ \E id \in 0..(size - 1), p \in DOMAIN PredTables : ForeachEdge(id, p)
    \/ \E id \in 0..(size - 1), p \in DOMAIN PredTables : ForeachNode(id, p)

SpecExpand == Init /\ [][NextExpand]_vars

(***************************************************************************)
(* The calls on the LP; lastOp keeps the members as they were before       *)
(***************************************************************************)
StoreUnchanged ==
    UNCHANGED <<m_graph, m_nodeCopy, m_nodeOrig, m_components, m_lossTerminal,
                pred, isLossEdge, inserted, calls>>

Optimize ==
    /\ lp.nOpt < MaxOptimize
    /\ lp' \in optimize(lp)
    /\ lastOp' = Op("optimize", Null, lp)
    /\ StoreUnchanged

RemRows ==
    /\ lp' = remRows(lp)
    /\ lastOp' = Op("remRows", Null, lp)
    /\ StoreUnchanged

RemCols ==
    /\ lp' = remCols(lp)
    /\ lastOp' = Op("remCols", Null, lp)
    /\ StoreUnchanged

ChangeRhs ==
    /\ lp' = changeRhs(lp)
    /\ lastOp' = Op("changeRhs", Null, lp)
    /\ StoreUnchanged

NextLP == Optimize \/ RemRows \/ RemCols \/ ChangeRhs

SpecLP == Init /\ [][NextLP]_vars

(***************************************************************************)
(* insert and remove of full components only                               *)
(***************************************************************************)
FullInputs == {comp \in Inputs : IsFullComponent(comp)}

NextFull ==
    \/ \E comp \in FullInputs : Insert(comp)
    \/ \E id \in 0..(size - 1) : Remove(id)

SpecFull == Init /\ [][NextFull]_vars

(***************************************************************************)
(* computeAllLosses called again and again on a store that is filled first *)
(* and left alone from the first call on                                   *)
(***************************************************************************)
NextRepeat ==
    \/ \E comp \in Inputs : calls.loss = 0 /\ calls.insert < MaxFilled /\ Insert(comp)
    \/ ComputeAllLossesUpTo(MaxRepeats)

SpecRepeat == Init /\ [][NextRepeat]_vars

(***************************************************************************)
(* Properties                                                              *)
(***************************************************************************)
Slots == 1..Len(m_components)

\* the input of the record in slot i was a full component
WellFormed(i) == IsFullComponent(inserted[i].comp)

Terminals == Range(m_terminals)

\* the nodes of m_graph on which an edge of the record in slot i meets original node t
attachedAt(i, t) ==
    {v \in m_graph.nodes :
        /\ m_nodeOrig[v] = t
        /\ \E a \in Range(m_graph.adj[v]) : a.edge \in inserted[i].edges}

\* C1: in every reachable state the compact graph has exactly one node per original
\* terminal, the terminal mapping is the one the constructor built, and every stored
\* component that spans terminal t is attached to that one node of t.
C1_TerminalNodesShared ==
    /\ \A t \in Terminals :
          /\ m_nodeCopy[t] = Constructed.nodeCopy[t]
          /\ {v \in m_graph.nodes : m_nodeOrig[v] = t} = {m_nodeCopy[t]}
    /\ \A u \in DOMAIN Constructed.nodeOrig : m_nodeOrig[u] = Constructed.nodeOrig[u]
    /\ \A i \in Slots : \A t \in Range(m_components[i].terminals) :
          /\ attachedAt(i, t) \subseteq {m_nodeCopy[t]}
          /\ Len(inserted[i].comp.edges) > 0 => attachedAt(i, t) = {m_nodeCopy[t]}

\* two stored components share a terminal, after a removal and a loss computation
C1_Witness ==
    /\ lastOp.op = "remove"
    /\ calls.loss = 1
    /\ size >= 2
    /\ \E t \in Terminals : attachedAt(1, t) # {} /\ attachedAt(2, t) # {}

\* C2: remove(id) of a full component deletes from the compact graph exactly the
\* edges and the non-terminal nodes its insert created: every other node and edge,
\* and the order of every remaining adjacency list, stay as they were.
C2_RemoveDeletesExactlyItsOwn ==
    [][(lastOp'.op = "remove" /\ IsFullComponent(lastOp'.arg.comp)) =>
          /\ lastOp'.arg.nodes \subseteq m_graph.nodes
          /\ lastOp'.arg.edges \subseteq DOMAIN m_graph.edges
          /\ \A v \in lastOp'.arg.nodes : ~isTerminal(m_nodeOrig, v)
          /\ m_graph'.nodes = m_graph.nodes \ lastOp'.arg.nodes
          /\ DOMAIN m_graph'.edges = (DOMAIN m_graph.edges) \ lastOp'.arg.edges
          /\ \A e \in DOMAIN m_graph'.edges : m_graph'.edges[e] = m_graph.edges[e]
          /\ \A v \in m_graph'.nodes :
                m_graph'.adj[v] =
                    SelectSeq(m_graph.adj[v], LAMBDA a : a.edge \notin lastOp'.arg.edges)
      ]_vars

\* a single-edge component was removed while another component joins the same two
\* terminals and a larger one shares a terminal with it
C2_Witness ==
    /\ lastOp.op = "remove"
    /\ IsFullComponent(lastOp.arg.comp)
    /\ Len(lastOp.arg.comp.nodes) = 2
    /\ \E i \in Slots : CompNodes(inserted[i].comp) = CompNodes(lastOp.arg.comp)
    /\ \E i \in Slots :
          /\ Len(m_components[i].terminals) >= 3
          /\ Range(m_components[i].terminals) \cap CompNodes(lastOp.arg.comp) # {}

RECURSIVE adjWeight(_)
adjWeight(adjs) ==
    IF adjs = <<>> THEN 0
    ELSE m_graph.edges[theEdge(Head(adjs))].weight + adjWeight(Tail(adjs))

\* sum of the weights of a sequence of edges
RECURSIVE edgeWeight(_)
edgeWeight(es) ==
    IF es = <<>> THEN 0 ELSE m_graph.edges[Head(es)].weight + edgeWeight(Tail(es))

\* C4: for every stored full component, cost(id) is the sum of the weights of the
\* edges of the adjacency entries that foreachAdjEntry(id, f) passes to f.
C4_CostIsSumOfVisitedWeights ==
    \A i \in Slots :
        WellFormed(i) => cost(i - 1) = adjWeight(visitedAdjEntries(i - 1))

\* a four-terminal component of positive cost, after a removal and a loss computation
C4_Witness ==
    /\ calls.loss = 1
    /\ lastOp.op = "remove"
    /\ \E i \in Slots :
          WellFormed(i) /\ Len(terminals(i - 1)) = 4 /\ cost(i - 1) > 2

\* C5: for a stored full component with |T| >= 3 terminals and s non-terminal nodes,
\* foreachAdjEntry passes |T|+s-1 entries to f, one on each edge of the component
\* and none on any other edge.
C5_EachEdgeVisitedOnce ==
    \A i \in Slots :
        (WellFormed(i) /\ Len(terminals(i - 1)) >= 3) =>
            LET v == visitedAdjEntries(i - 1)
            IN /\ Len(v) = Len(terminals(i - 1)) + Cardinality(inserted[i].nodes) - 1
               /\ {theEdge(v[k]) : k \in DOMAIN v} = inserted[i].edges
               /\ \A j, k \in DOMAIN v : j # k => theEdge(v[j]) # theEdge(v[k])

\* a star with 3 visits and a double star with 5 visits share terminals
C5_Witness ==
    \E i, j \in Slots :
        /\ WellFormed(i) /\ WellFormed(j)
        /\ Len(terminals(i - 1)) = 3 /\ Len(visitedAdjEntries(i - 1)) = 3
        /\ Len(terminals(j - 1)) = 4 /\ Len(visitedAdjEntries(j - 1)) = 5

AfterFirstLossRun == lastOp.op = "computeAllLosses" /\ calls.loss = 1

\* C6: after one computeAllLosses(), for every stored full component the loss plus
\* the weights of its bridges is its cost.
C6_LossPlusBridgesIsCost ==
    AfterFirstLossRun =>
        \A i \in Slots :
            WellFormed(i) =>
                m_components[i].extra.loss + edgeWeight(m_components[i].extra.bridges)
                    = cost(i - 1)

\* a four-terminal component with a positive loss and bridges of positive weight
C6_Witness ==
    /\ AfterFirstLossRun
    /\ \E i \in Slots :
          /\ WellFormed(i) /\ Len(terminals(i - 1)) = 4
          /\ m_components[i].extra.loss > 0
          /\ edgeWeight(m_components[i].extra.bridges) > 0

\* the first terminal on the predecessor path of node v, within n steps
RECURSIVE firstTerminalOnPredPath(_, _)
firstTerminalOnPredPath(v, n) ==
    IF isTerminal(m_nodeOrig, v) THEN m_nodeOrig[v]
    ELSE IF n = 0 \/ pred[v] = Null THEN Null
    ELSE firstTerminalOnPredPath(opposite(m_graph, pred[v], v), n - 1)

NonTerminalNodes == {v \in m_graph.nodes : ~isTerminal(m_nodeOrig, v)}

\* C7: after computeAllLosses(), the node of every terminal t has loss terminal t,
\* and every non-terminal node with a loss terminal has the first terminal that the
\* predecessor edges lead to from it, reached within as many steps as there are nodes.
C7_LossTerminalIsFirstOnPredPath ==
    lastOp.op = "computeAllLosses" =>
        /\ \A t \in Terminals : m_lossTerminal[m_nodeCopy[t]] = t
        /\ \A v \in NonTerminalNodes :
              m_lossTerminal[v] # Null =>
                  m_lossTerminal[v] =
                      firstTerminalOnPredPath(v, Cardinality(m_graph.nodes))

\* a resolved non-terminal whose predecessor is a non-terminal and whose loss
\* terminal is not the root
C7_Witness ==
    /\ lastOp.op = "computeAllLosses"
    /\ \E v \in NonTerminalNodes :
          /\ m_lossTerminal[v] \notin {Null, m_terminals[1]}
          /\ pred[v] # Null
          /\ ~isTerminal(m_nodeOrig, opposite(m_graph, pred[v], v))

\* all edges of the input of the record in slot i have a strictly positive weight
PositiveWeights(i) == \A e \in Range(inserted[i].comp.edges) : e.weight > 0

\* C8 as stated: after computeAllLosses() on a store of full components, every
\* non-terminal node of every stored component has a loss terminal.
C8_EveryNonTerminalResolved ==
    (lastOp.op = "computeAllLosses" /\ \A i \in Slots : WellFormed(i)) =>
        \A i \in Slots : \A v \in inserted[i].nodes : m_lossTerminal[v] # Null

\* C8 amended: after computeAllLosses(), every non-terminal node of every stored
\* full component whose edge weights are all strictly positive has a loss terminal.
C8_PositiveNonTerminalResolved ==
    lastOp.op = "computeAllLosses" =>
        \A i \in Slots :
            (WellFormed(i) /\ PositiveWeights(i)) =>
                \A v \in inserted[i].nodes : m_lossTerminal[v] # Null

\* a full component of positive weights with two non-terminal nodes, both resolved,
\* beside a component with an edge of weight zero
C8_Witness ==
    /\ lastOp.op = "computeAllLosses"
    /\ \E i, j \in Slots :
          /\ WellFormed(i) /\ PositiveWeights(i)
          /\ Cardinality(inserted[i].nodes) = 2
          /\ \A v \in inserted[i].nodes : m_lossTerminal[v] # Null
          /\ WellFormed(j) /\ ~PositiveWeights(j)

\* the input is a single edge between two terminals
SingleEdge(comp) ==
    /\ Len(comp.nodes) = 2
    /\ Len(comp.edges) = 1
    /\ IsFullComponent(comp)

\* C9: a component inserted as a single edge (a,b) of weight w between two terminals
\* has cost w and terminals {a,b}, and foreachAdjEntry passes exactly one entry to f,
\* the twin of the stored start, which lies on the component's edge.
C9_SingleEdgeComponent ==
    \A i \in Slots :
        SingleEdge(inserted[i].comp) =>
            /\ cost(i - 1) = inserted[i].comp.edges[1].weight
            /\ Len(terminals(i - 1)) = 2
            /\ Range(terminals(i - 1)) = CompNodes(inserted[i].comp)
            /\ start(i - 1) # NoAdj
            /\ {theEdge(start(i - 1))} = inserted[i].edges
            /\ visitedAdjEntries(i - 1) = <<twin(start(i - 1))>>

\* two single-edge components on the same pair of terminals, one of weight 2
C9_Witness ==
    \E i, j \in Slots :
        /\ i # j
        /\ SingleEdge(inserted[i].comp) /\ SingleEdge(inserted[j].comp)
        /\ terminals(i - 1) = terminals(j - 1)
        /\ cost(i - 1) = 2

\* C10: terminals(id) holds exactly the terminals among the nodes of the inserted
\* tree, in strictly increasing node-index order, and isTerminal(id, t) is true
\* exactly for these.
C10_TerminalsSorted ==
    \A i \in Slots :
        /\ Range(terminals(i - 1)) = {v \in CompNodes(inserted[i].comp) : m_isTerminal[v]}
        /\ \A j, k \in DOMAIN terminals(i - 1) :
              j < k => terminals(i - 1)[j] < terminals(i - 1)[k]
        /\ \A t \in OrigNodes :
              isTerminalIn(i - 1, t) <=> t \in Range(terminals(i - 1))

\* the inserted tree listed its four terminals in another order than by index
C10_Witness ==
    \E i \in Slots :
        /\ Len(terminals(i - 1)) = 4
        /\ inserted[i].comp.nodes[1] = 4
        /\ inserted[i].comp.nodes[2] = 3

\* sum of the weights of the edges of an input tree
RECURSIVE inputWeight(_)
inputWeight(es) ==
    IF es = <<>> THEN 0 ELSE Head(es).weight + inputWeight(Tail(es))

\* the record rec is the one insert builds for the input tree comp
RecordOf(rec, comp) ==
    /\ Range(rec.terminals) = {v \in CompNodes(comp) : m_isTerminal[v]}
    /\ rec.cost = inputWeight(comp.edges)

\* C11 as stated: insert returns the identifier of the newly stored component,
\* which is the size of the store immediately before the call.
C11_InsertReturnsOldSize ==
    [][lastOp'.op = "insert" => lastOp'.ret = Returned(Len(m_components))]_vars

\* C11 amended: insert returns nothing; the newly stored component is found under
\* the identifier that is the size of the store immediately before the call.
C11_InsertStoresAtOldSize ==
    [][lastOp'.op = "insert" =>
          /\ lastOp'.ret = Void
          /\ lastOp'.id = Len(m_components)
          /\ Len(m_components') > lastOp'.id
          /\ RecordOf(m_components'[lastOp'.id + 1], inserted'[lastOp'.id + 1].comp)
          /\ inserted'[lastOp'.id + 1].uid = calls.insert
      ]_vars

\* a third component was inserted behind two others of other cost
C11_Witness ==
    /\ lastOp.op = "insert"
    /\ lastOp.id = 2
    /\ size = 3
    /\ cost(2) # cost(0) /\ cost(2) # cost(1)
    /\ \A i \in Slots : WellFormed(i)

\* C12: the store starts with size() = 0 and isEmpty() true; isEmpty() is true
\* exactly when size() = 0; every successful insert makes size() one larger, puts
\* the record of its input at index (old size) and leaves cost, terminals and start
\* of every identifier stored before as they were.
C12_InsertGrowsByOne ==
    /\ (size = 0 /\ isEmpty)
    /\ [](isEmpty <=> size = 0)
    /\ [][(lastOp'.op = "insert" /\ lastOp'.ret = Void) =>
             /\ size' = size + 1
             /\ ~isEmpty'
             /\ RecordOf(m_components'[size + 1], inserted'[size + 1].comp)
             /\ \A id \in 0..(size - 1) :
                   /\ cost(id)' = cost(id)
                   /\ terminals(id)' = terminals(id)
                   /\ start(id)' = start(id)
         ]_vars

\* an insert into a store of one record, after another record had been removed
C12_Witness ==
    /\ lastOp.op = "insert"
    /\ lastOp.id = 1
    /\ calls.insert = 3
    /\ size = 2
    /\ start(0) # NoAdj /\ start(1) # NoAdj /\ start(0) # start(1)

\* the live records that node v of the compact graph belongs to: those with an
\* edge at v
ownersOf(v) ==
    {i \in Slots : \E a \in Range(m_graph.adj[v]) : a.edge \in inserted[i].edges}

\* after insert has returned, the original-to-compact mapping is set for terminals only
NodeCopyOnlyForTerminals ==
    \A v \in OrigNodes : m_nodeCopy[v] # Null => m_isTerminal[v]

\* a non-terminal node leaves the compact graph only in the removal of the
\* component whose insert created it
DeletedOnlyByOwnRemoval ==
    \A v \in NonTerminalNodes :
        v \notin m_graph'.nodes =>
            (lastOp'.op = "remove" /\ v \in lastOp'.arg.nodes)

\* C13 as stated: every non-terminal node of the compact graph belongs to exactly
\* one live component; the original-to-compact mapping is set for terminals only;
\* a non-terminal node is deleted only by the removal of the component that
\* created it.
C13_NonTerminalInExactlyOne ==
    /\ [](NodeCopyOnlyForTerminals
            /\ \A v \in NonTerminalNodes : Cardinality(ownersOf(v)) = 1)
    /\ [][DeletedOnlyByOwnRemoval]_vars

\* C13 amended: every non-terminal node of the compact graph belongs to at most
\* one live component, and a non-terminal node created by the insert of a full
\* component belongs to exactly that component for as long as it is live; the
\* original-to-compact mapping is set for terminals only, so two live components
\* never share a non-terminal node; a non-terminal node is deleted only by the
\* removal of the component that created it.
C13_NonTerminalInAtMostOne ==
    /\ [](/\ NodeCopyOnlyForTerminals
          /\ \A v \in NonTerminalNodes : Cardinality(ownersOf(v)) <= 1
          /\ \A i \in Slots :
                WellFormed(i) =>
                    \A v \in inserted[i].nodes :
                        /\ v \in NonTerminalNodes
                        /\ ownersOf(v) = {i})
    /\ [][DeletedOnlyByOwnRemoval]_vars

\* two live full components contain the same original non-terminal node on two
\* distinct nodes of the compact graph, after a third one with that node was removed
C13_Witness ==
    /\ lastOp.op = "remove"
    /\ lastOp.arg.nodes # {}
    /\ \E i, j \in Slots :
          /\ i # j /\ WellFormed(i) /\ WellFormed(j)
          /\ \E v \in inserted[i].nodes, w \in inserted[j].nodes :
                /\ v # w
                /\ m_nodeOrig[v] = m_nodeOrig[w]
                /\ m_nodeOrig[v] \in {m_nodeOrig[x] : x \in lastOp.arg.nodes}

\* C14: for a stored full component with |T| >= 3 terminals, foreachNode(id, f)
\* calls f first with the original node of start's terminal and then once for
\* every other node of the component: |T| terminals and every non-terminal node
\* of the component, each exactly once.
C14_EachNodeVisitedOnce ==
    \A i \in Slots :
        (WellFormed(i) /\ Len(terminals(i - 1)) >= 3) =>
            LET n == visitedNodes(i - 1)
            IN /\ n[1] = original(theNode(m_graph, start(i - 1)))
               /\ m_isTerminal[n[1]]
               /\ Len(n) = Len(terminals(i - 1)) + Cardinality(inserted[i].nodes)
               /\ \A j, k \in DOMAIN n : j # k => n[j] # n[k]
               /\ Range(n) = CompNodes(inserted[i].comp)
               /\ {v \in Range(n) : m_isTerminal[v]} = Range(terminals(i - 1))

\* a four-terminal component with six visited nodes beside a three-terminal one
\* with four, both around original node 5, after a removal
C14_Witness ==
    /\ lastOp.op = "remove"
    /\ \E i, j \in Slots :
          /\ WellFormed(i) /\ WellFormed(j)
          /\ Len(terminals(i - 1)) = 4 /\ Len(visitedNodes(i - 1)) = 6
          /\ Len(terminals(j - 1)) = 3 /\ Len(visitedNodes(j - 1)) = 4
          /\ 5 \in Range(visitedNodes(i - 1)) \cap Range(visitedNodes(j - 1))

\* the value the table holds for the query lastOp records
tableValue(op) ==
    CASE op.op = "terminals" -> m_components[op.id + 1].terminals
      [] op.op = "isTerminal" -> op.arg \in Range(m_components[op.id + 1].terminals)
      [] op.op = "cost" -> m_components[op.id + 1].cost
      [] op.op = "start" -> m_components[op.id + 1].start
      [] op.op = "original" -> m_nodeOrig[op.id]

\* the query lastOp records was called with an id outside 0..size-1, or original
\* with a node that has no mapping
invalidCall(op) ==
    IF op.op = "original" THEN op.id \notin DOMAIN m_nodeOrig
    ELSE op.id < 0 \/ op.id >= Len(m_components)

\* C15: terminals(id), isTerminal(id, t), cost(id) and start(id) with id < 0 or
\* id >= size(), and original(v) for a node without a mapping, fail with an
\* assertion instead of returning a value; with valid arguments they return the
\* value of the table; in both cases the store is left unchanged.
C15_InvalidQueryAsserts ==
    [][lastOp'.op \in QueryNames =>
          /\ UNCHANGED <<m_graph, m_nodeCopy, m_nodeOrig, m_components, m_lossTerminal>>
          /\ IF invalidCall(lastOp')
             THEN lastOp'.ret = AssertionFailed
             ELSE lastOp'.ret = Returned(tableValue(lastOp'))
      ]_vars

\* cost(2) fails on a store of two records that had held three
C15_Witness ==
    /\ lastOp.op = "cost"
    /\ lastOp.id = 2
    /\ lastOp.ret = AssertionFailed
    /\ size = 2
    /\ calls.insert = 3

\* the input of the call of insert that lastOp' records
insertInput ==
    IF lastOp'.ret = AssertionFailed THEN lastOp'.arg
    ELSE inserted'[Len(inserted')].comp

\* C16: insert of an empty input, or of an input that is no tree, fails with an
\* assertion and leaves the compact graph, the node mappings and the component
\* table as they were.
C16_BadInsertAssertsUnchanged ==
    [][(lastOp'.op = "insert" /\ (insertInput.nodes = <<>> \/ ~isTree(insertInput))) =>
          /\ lastOp'.ret = AssertionFailed
          /\ UNCHANGED <<m_graph, m_nodeCopy, m_nodeOrig, m_components, m_lossTerminal>>
      ]_vars

\* a triangle beside a single node (as many edges as a tree has) was rejected by
\* a store that holds two records
C16_Witness ==
    /\ lastOp.op = "insert"
    /\ lastOp.ret = AssertionFailed
    /\ Len(lastOp.arg.nodes) = 4 /\ Len(lastOp.arg.edges) = 3
    /\ size = 2

\* what insert created for the record in slot i is one edge between the nodes of
\* its two terminals, and no node
OneEdgeBetweenTerminals(i) ==
    /\ inserted[i].nodes = {}
    /\ Cardinality(inserted[i].edges) = 1
    /\ \A e \in inserted[i].edges :
          /\ e \in DOMAIN m_graph.edges
          /\ {m_graph.edges[e].source, m_graph.edges[e].target}
                = {m_nodeCopy[t] : t \in Range(m_components[i].terminals)}

\* nothing that the insert of the removed record created is left in the compact graph
NothingLeftOfRemoved ==
    /\ lastOp'.arg.nodes \cap m_graph'.nodes = {}
    /\ lastOp'.arg.edges \cap DOMAIN m_graph'.edges = {}

\* C17 as stated: whatever inputs passed the checks of insert, every stored
\* component with exactly 2 terminals is one edge of the compact graph between
\* these two terminals without any non-terminal node, and its removal leaves none
\* of its nodes or edges in the compact graph.
C17_TwoTerminalsOneEdge ==
    /\ [](\A i \in Slots :
             Len(m_components[i].terminals) = 2 => OneEdgeBetweenTerminals(i))
    /\ [][(lastOp'.op = "remove"
             /\ Len(m_components[lastOp'.id + 1].terminals) = 2)
           => NothingLeftOfRemoved]_vars

\* C17 amended: every stored component with exactly 2 terminals that was inserted
\* as a full component is one edge of the compact graph between these two
\* terminals without any non-terminal node, and its removal leaves none of its
\* nodes or edges in the compact graph.
C17_FullTwoTerminalsOneEdge ==
    /\ [](\A i \in Slots :
             (WellFormed(i) /\ Len(m_components[i].terminals) = 2)
                => OneEdgeBetweenTerminals(i))
    /\ [][(lastOp'.op = "remove"
             /\ IsFullComponent(lastOp'.arg.comp)
             /\ Len(m_components[lastOp'.id + 1].terminals) = 2)
           => NothingLeftOfRemoved]_vars

\* a two-terminal full component was removed; another one is stored beside a
\* two-terminal record that is no full component
C17_Witness ==
    /\ lastOp.op = "remove"
    /\ SingleEdge(lastOp.arg.comp)
    /\ \E i, j \in Slots :
          /\ WellFormed(i) /\ Len(terminals(i - 1)) = 2
          /\ ~WellFormed(j) /\ Len(terminals(j - 1)) = 2

\* start of the record in slot i is set, lies on an edge that the insert of the
\* record created and sits on a terminal; with 3 or more terminals the other end
\* of that edge is a non-terminal node
StartOnTerminal(i) ==
    /\ start(i - 1) # NoAdj
    /\ theEdge(start(i - 1)) \in inserted[i].edges
    /\ theEdge(start(i - 1)) \in DOMAIN m_graph.edges
    /\ isTerminal(m_nodeOrig, theNode(m_graph, start(i - 1)))
    /\ original(theNode(m_graph, start(i - 1))) \in Range(terminals(i - 1))
    /\ Len(terminals(i - 1)) >= 3 =>
          ~isTerminal(m_nodeOrig, twinNode(m_graph, start(i - 1)))

\* C18 as stated: for every component stored by an insert whose input passed the
\* checks of insert, start(id) is set, lies on an edge of the component and sits
\* on a terminal, and with 3 or more terminals the other end is a non-terminal.
C18_StartOnTerminal ==
    \A i \in Slots : StartOnTerminal(i)

\* C18 amended: for every component stored by the insert of a full component,
\* start(id) is set, lies on an edge of the component and sits on a terminal, and
\* with 3 or more terminals the other end of that edge is a non-terminal node.
C18_FullStartOnTerminal ==
    \A i \in Slots : WellFormed(i) => StartOnTerminal(i)

\* a four-terminal full component with its start, beside a record without start
C18_Witness ==
    \E i, j \in Slots :
        /\ WellFormed(i) /\ Len(terminals(i - 1)) = 4 /\ StartOnTerminal(i)
        /\ start(j - 1) = NoAdj

\* the largest number of nodes on the stack of remove(id) called in the current state
removeStack(id) == removeInGraph(m_graph, m_nodeOrig, m_components[id + 1]).maxStack

\* the largest number of handles on the stack of foreachAdjEntry(id, f) called in
\* the current state
adjEntryStack(id) == foreachAdjEntry(m_graph, m_nodeOrig, m_components[id + 1]).maxStack

\* C19: in every reachable state, remove(id) of a stored full component with
\* |T| >= 3 terminals has at no point of its walk more than 2*|T|-3 nodes on its
\* stack, which is within the capacity its BoundedStack is given (and at least
\* one, the first node pushed).
C19_RemoveStackBounded ==
    \A i \in Slots :
        (WellFormed(i) /\ Len(terminals(i - 1)) >= 3) =>
            /\ removeStack(i - 1) >= 1
            /\ removeStack(i - 1) <= removeStackSize(m_components[i])
            /\ removeStack(i - 1) <= 2 * Len(terminals(i - 1)) - 3

\* a four-terminal component was removed, and the removal of another one stored
\* in this state has three nodes on its stack at some point
C19_Witness ==
    /\ lastOp.op = "remove"
    /\ IsFullComponent(lastOp.arg.comp)
    /\ Cardinality(lastOp.arg.nodes) = 2
    /\ \E i \in Slots :
          WellFormed(i) /\ Len(terminals(i - 1)) = 4 /\ removeStack(i - 1) = 3

\* C20: in every reachable state, foreachAdjEntry(id, f) on a stored full
\* component with |T| >= 3 terminals has at no point of its walk more than
\* 2*|T|-2 handles on its stack, which is within the capacity its BoundedStack is
\* given (and at least one, the start handle).
C20_AdjEntryStackBounded ==
    \A i \in Slots :
        (WellFormed(i) /\ Len(terminals(i - 1)) >= 3) =>
            /\ adjEntryStack(i - 1) >= 1
            /\ adjEntryStack(i - 1) <= adjEntryStackSize(m_components[i])
            /\ adjEntryStack(i - 1) <= 2 * Len(terminals(i - 1)) - 2

\* computeAllLosses has walked a three-terminal component and a four-terminal
\* component, each with two handles on the stack at some point
C20_Witness ==
    /\ lastOp.op = "computeAllLosses"
    /\ \E i, j \in Slots :
          /\ WellFormed(i) /\ Len(terminals(i - 1)) = 3 /\ adjEntryStack(i - 1) = 2
          /\ WellFormed(j) /\ Len(terminals(j - 1)) = 4 /\ adjEntryStack(j - 1) = 2
          /\ Len(visitedAdjEntries(j - 1)) = 5

\* C21: in foreachAdjEntry on a stored component with 3 or more terminals, every
\* handle passed to f sits on a node that is neither start's terminal nor the
\* node of an earlier handle, and its opposite node is start's terminal (for the
\* first handle) or the node of an earlier handle; the handles of a terminal that
\* the walk reaches are never pushed, so after the first handle no handle is
\* reached from a terminal.
C21_HandlesPointBack ==
    \A i \in Slots :
        Len(terminals(i - 1)) >= 3 =>
            LET v == visitedAdjEntries(i - 1)
                s == theNode(m_graph, start(i - 1))
            IN /\ Len(v) >= 1
               /\ twinNode(m_graph, v[1]) = s
               /\ \A k \in DOMAIN v :
                     /\ theNode(m_graph, v[k]) # s
                     /\ \A j \in 1..(k - 1) :
                           theNode(m_graph, v[j]) # theNode(m_graph, v[k])
                     /\ k > 1 =>
                           /\ \E j \in 1..(k - 1) :
                                 theNode(m_graph, v[j]) = twinNode(m_graph, v[k])
                           /\ ~isTerminal(m_nodeOrig, twinNode(m_graph, v[k]))

\* a four-terminal component whose walk passes a handle reached from its second
\* non-terminal node, in a store where another component shares its terminals
C21_Witness ==
    \E i, j \in Slots :
        /\ i # j
        /\ Len(terminals(i - 1)) = 4
        /\ Range(terminals(j - 1)) \subseteq Range(terminals(i - 1))
        /\ LET v == visitedAdjEntries(i - 1)
           IN \E k \in 3..Len(v) :
                 /\ twinNode(m_graph, v[k]) # twinNode(m_graph, v[2])
                 /\ isTerminal(m_nodeOrig, theNode(m_graph, v[k]))

\* the positions, in edge iteration order, of the edges of the input tree comp
\* that have a terminal end
terminalEdges(comp) ==
    {k \in DOMAIN comp.edges :
        m_isTerminal[comp.edges[k].source] \/ m_isTerminal[comp.edges[k].target]}

\* the adjacency entry that the edge loop of insert takes from the k-th edge of
\* the input of slot i: the edges get ascending ids in iteration order
endpointOn(i, k) ==
    LET first == CHOOSE m \in inserted[i].edges : \A x \in inserted[i].edges : m <= x
        eC == first + k - 1
    IN IF m_isTerminal[inserted[i].comp.edges[k].source] THEN adjSource(eC)
       ELSE adjTarget(eC)

\* C22 as stated: the start of every stored component is the endpoint on the
\* first edge with a terminal end in the edge iteration order of its input; later
\* edges with a terminal end have not changed it.
C22_StartOnFirstTerminalEdge ==
    \A i \in Slots :
        LET te == terminalEdges(inserted[i].comp)
        IN te # {} =>
              start(i - 1) = endpointOn(i, CHOOSE k \in te : \A x \in te : k <= x)

\* C22 amended: the start of every stored component is the endpoint on the last
\* edge with a terminal end in the edge iteration order of its input (every such
\* edge overwrites it), and it is null when the input has no such edge.
C22_StartOnLastTerminalEdge ==
    \A i \in Slots :
        LET te == terminalEdges(inserted[i].comp)
        IN IF te = {} THEN start(i - 1) = NoAdj
           ELSE start(i - 1) = endpointOn(i, CHOOSE k \in te : \A x \in te : k >= x)

\* a stored component whose input has several edges with a terminal end, with
\* start on the last of them and not on the first, beside a record without start
C22_Witness ==
    \E i, j \in Slots :
        LET te == terminalEdges(inserted[i].comp)
        IN /\ Cardinality(te) >= 3
           /\ start(i - 1) = endpointOn(i, CHOOSE k \in te : \A x \in te : k >= x)
           /\ start(i - 1) # endpointOn(i, CHOOSE k \in te : \A x \in te : k <= x)
           /\ terminalEdges(inserted[j].comp) = {}

\* the non-terminal nodes of the input tree comp, in node iteration order
nonTerminalsOf(comp) == SelectSeq(comp.nodes, LAMBDA v : ~m_isTerminal[v])

\* C23 as stated: outside insert, neither the original-to-compact entry nor the
\* compact-to-original entry of a non-terminal node created by an insert is set.
C23_NoMappingForNonTerminals ==
    \A i \in Slots :
        /\ \A k \in DOMAIN nonTerminalsOf(inserted[i].comp) :
              m_nodeCopy[nonTerminalsOf(inserted[i].comp)[k]] = Null
        /\ \A v \in inserted[i].nodes :
              v \notin DOMAIN m_nodeOrig \/ m_nodeOrig[v] = Null

\* C23 amended: outside insert, the original-to-compact entry of every
\* non-terminal original node is absent, while the compact-to-original entry of
\* every non-terminal compact node created by the insert of a stored component
\* stays set to the original node it was created for.
C23_OnlyNodeCopyForgotten ==
    \A i \in Slots :
        LET nt == nonTerminalsOf(inserted[i].comp)
        IN /\ \A k \in DOMAIN nt : m_nodeCopy[nt[k]] = Null
           /\ Cardinality(inserted[i].nodes) = Len(nt)
           /\ \A v \in inserted[i].nodes :
                 LET k == 1 + Cardinality({x \in inserted[i].nodes : x < v})
                 IN /\ v \in DOMAIN m_nodeOrig
                    /\ m_nodeOrig[v] = nt[k]

\* two stored components that both have the original non-terminals 5 and 6, each
\* with its own compact nodes that are still mapped to 5 and 6
C23_Witness ==
    \E i, j \in Slots :
        /\ i # j
        /\ Cardinality(inserted[i].nodes) = 2
        /\ Cardinality(inserted[j].nodes) = 2
        /\ \A o \in {5, 6} :
              /\ m_nodeCopy[o] = Null
              /\ \E v \in inserted[i].nodes : m_nodeOrig[v] = o
              /\ \E v \in inserted[j].nodes : m_nodeOrig[v] = o

\* every entry of row u of the table P off u itself is filled
rowFilled(P, u) == \A v \in OrigNodes \ {u} : P[u][v] # Null

\* the nodes reached from v along the edges es of the original graph, v first
RECURSIVE along(_, _)
along(v, es) ==
    IF es = <<>> THEN <<v>>
    ELSE <<v>> \o along(origOpposite(es[1], v), Tail(es))

\* C24: foreachEdge(id, pred, f) runs once per handle back of foreachAdjEntry,
\* with u the original of back's opposite node and v0 the original of back's
\* node; it passes pred[u][v] for v = v0 and each following v = opposite end,
\* until pred[u][v] is null.  When row u is filled these are the edges of the
\* pred-path from v0 to u, in order, each once, and no other edge.
C24_ForeachEdgeVisitsPredPath ==
    lastOp.op = "foreachEdge" =>
        LET r == lastOp.ret[1]
            P == PredTables[lastOp.arg]
            h == visitedAdjEntries(lastOp.id)
        IN /\ Len(r.calls) = Len(h)
           /\ \A k \in DOMAIN h :
                 LET u == original(twinNode(m_graph, h[k]))
                     v0 == original(theNode(m_graph, h[k]))
                     es == r.calls[k].visits
                     n == along(v0, es)
                 IN /\ r.calls[k].back = h[k]
                    /\ r.calls[k].row = u
                    /\ \A j \in DOMAIN es : es[j] # Null /\ es[j] = P[u][n[j]]
                    /\ P[u][n[Len(es) + 1]] = Null
                    /\ rowFilled(P, u) =>
                          /\ n[Len(es) + 1] = u
                          /\ Len(es) = dist(u, v0)
                          /\ \A i, j \in DOMAIN es : i # j => es[i] # es[j]
                          /\ \A j \in DOMAIN es :
                                n[j] \in {origEdges[es[j]].source, origEdges[es[j]].target}

\* foreachEdge on a four-terminal component with a filled table has walked from
\* one non-terminal to the other over two edges of the original graph
C24_Witness ==
    /\ lastOp.op = "foreachEdge"
    /\ Len(terminals(lastOp.id)) = 4
    /\ \E k \in DOMAIN lastOp.ret[1].calls :
          LET c == lastOp.ret[1].calls[k]
          IN /\ ~m_isTerminal[c.row]
             /\ rowFilled(PredTables[lastOp.arg], c.row)
             /\ Len(c.visits) = 2

\* C25: foreachNode(id, pred, f) on a full component with exactly 3 terminals reads
\* only rows pred[t] of terminals t of the component, never the row of the hub;
\* it passes the original of the hub first and then, for every adjacency entry
\* of the hub in list order, every node after the hub on the pred[t]-path from
\* the hub to the terminal t at the other end, t included and last.
C25_ThreeTerminalsReadTerminalRows ==
    (lastOp.op = "foreachNode" /\ Len(terminals(lastOp.id)) = 3
                                /\ WellFormed(lastOp.id + 1)) =>
        LET r == lastOp.ret[1]
            P == PredTables[lastOp.arg]
            c == twinNode(m_graph, start(lastOp.id))
            hub == original(c)
        IN /\ ~m_isTerminal[hub]
           /\ r.first = hub
           /\ Len(r.calls) = Len(m_graph.adj[c])
           /\ {r.calls[k].row : k \in DOMAIN r.calls} = Range(terminals(lastOp.id))
           /\ \A k \in DOMAIN r.calls :
                 LET t == original(twinNode(m_graph, m_graph.adj[c][k]))
                     n == <<hub>> \o r.calls[k].visits
                 IN /\ r.calls[k].row = t
                    /\ m_isTerminal[t] /\ t # hub
                    /\ Len(n) = dist(t, hub) + 1
                    /\ n[Len(n)] = t
                    /\ \A j \in 1..(Len(n) - 1) :
                          /\ n[j] # t
                          /\ P[t][n[j]] # Null
                          /\ n[j + 1] = origOpposite(P[t][n[j]], n[j])

\* foreachNode on a three-terminal component with a table that has only the
\* terminals' rows: one of the three walks passes two nodes before its terminal
C25_Witness ==
    /\ lastOp.op = "foreachNode"
    /\ Len(terminals(lastOp.id)) = 3
    /\ ~rowFilled(PredTables[lastOp.arg], lastOp.ret[1].first)
    /\ \E k \in DOMAIN lastOp.ret[1].calls : Len(lastOp.ret[1].calls[k].visits) = 3

\* the nodes passed to f by all the calls of one traversal, in order
RECURSIVE flat(_)
flat(cs) == IF cs = <<>> THEN <<>> ELSE cs[1].visits \o flat(Tail(cs))

\* the nodes of the path that the row P[s] leads along from t to s, both ends included
pathNodes(P, s, t) ==
    LET l == predLoop(P, s, t) IN {l[j].node : j \in DOMAIN l} \cup {s}

\* the nodes of the expanded tree of the record in slot i: the nodes of the paths
\* of the original graph that stand for the edges of its input
expandedTree(i, P) ==
    UNION {pathNodes(P, e.source, e.target) : e \in Range(inserted[i].comp.edges)}

\* the paths that stand for distinct edges of the input of slot i meet in no
\* interior node, and no interior node is a node of the input
noSharedInterior(i, P) ==
    LET es == inserted[i].comp.edges
        inner(k) == pathNodes(P, es[k].source, es[k].target) \ {es[k].source, es[k].target}
    IN \A k \in DOMAIN es :
          /\ inner(k) \cap Range(inserted[i].comp.nodes) = {}
          /\ \A j \in DOMAIN es : j # k => inner(j) \cap inner(k) = {}

\* foreachNode(id, pred, f) on a record whose terminal count is not 3 has passed
\* the original of start's node first and then, for every handle reached from u
\* with far end v0 whose row pred[u] is filled, v0 and each further node of the
\* pred[u]-path from v0 to u in order, but not u
visitsAlongPredPaths ==
    LET r == lastOp.ret[1]
        P == PredTables[lastOp.arg]
        h == visitedAdjEntries(lastOp.id)
    IN /\ r.first = original(theNode(m_graph, start(lastOp.id)))
       /\ Len(r.calls) = Len(h)
       /\ \A k \in DOMAIN h :
             LET u == original(twinNode(m_graph, h[k]))
                 v0 == original(theNode(m_graph, h[k]))
                 n == r.calls[k].visits
             IN /\ r.calls[k].row = u
                /\ rowFilled(P, u) =>
                      /\ Len(n) = dist(u, v0)
                      /\ n[1] = v0
                      /\ \A j \in DOMAIN n :
                            /\ n[j] # u
                            /\ P[u][n[j]] # Null
                            /\ origOpposite(P[u][n[j]], n[j]) =
                                  IF j < Len(n) THEN n[j + 1] ELSE u

\* with every row that was read filled and no interior node shared, every node
\* of the expanded tree of the record has been passed exactly once
eachExpandedNodeOnce ==
    LET r == lastOp.ret[1]
        P == PredTables[lastOp.arg]
        all == <<r.first>> \o flat(r.calls)
    IN ((\A k \in DOMAIN r.calls : rowFilled(P, r.calls[k].row))
            /\ noSharedInterior(lastOp.id + 1, P)) =>
          /\ Range(all) = expandedTree(lastOp.id + 1, P)
          /\ \A i, j \in DOMAIN all : i # j => all[i] # all[j]

zeroEdgeIds == m_graph.edgeIdCount..(m_graph.edgeIdCount + Len(m_terminals) - 2)

\* C27: a call of computeAllLosses leaves the nodes, the edges and every
\* adjacency list of the compact graph, the size of the table and the cost, the
\* terminals and the start of every record as they were; none of the zero-cost
\* edges it adds is left in the graph, is passed by the traversal of a record or
\* is stored in a bridges list.
C27_LossRunLeavesStoreAlone ==
    [][lastOp'.op = "computeAllLosses" =>
          /\ m_graph'.nodes = m_graph.nodes
          /\ m_graph'.edges = m_graph.edges
          /\ m_graph'.adj = m_graph.adj
          /\ m_graph'.nodeIdCount = m_graph.nodeIdCount
          /\ zeroEdgeIds \cap DOMAIN m_graph'.edges = {}
          /\ \A v \in m_graph'.nodes : \A k \in DOMAIN m_graph'.adj[v] :
                m_graph'.adj[v][k].edge \notin zeroEdgeIds
          /\ Len(m_components') = Len(m_components)
          /\ m_nodeCopy' = m_nodeCopy /\ m_nodeOrig' = m_nodeOrig
          /\ \A i \in Slots :
                /\ m_components'[i].cost = m_components[i].cost
                /\ m_components'[i].terminals = m_components[i].terminals
                /\ m_components'[i].start = m_components[i].start
                /\ Range(m_components'[i].extra.bridges) \cap zeroEdgeIds = {}
                /\ Range(m_components'[i].extra.bridges) \subseteq inserted[i].edges
                /\ \A a \in Range(foreachAdjEntry(m_graph', m_nodeOrig',
                                                    m_components'[i]).visits) :
                      theEdge(a) \notin zeroEdgeIds /\ theEdge(a) \in inserted[i].edges
      ]_vars

\* after a call of computeAllLosses on two records, one of them with a bridge:
\* all three zero-cost edges were in the spanning tree and none is in the graph
C27_Witness ==
    /\ lastOp.op = "computeAllLosses"
    /\ size >= 2
    /\ \E i \in Slots : m_components[i].extra.bridges # <<>>
    /\ Cardinality({e \in (DOMAIN isLossEdge) \ (DOMAIN m_graph.edges) : isLossEdge[e]})
          = Len(m_terminals) - 1

\* the sum of the weights of the edges in the set es of the compact graph
RECURSIVE weightSum(_)
weightSum(es) ==
    IF es = {} THEN 0
    ELSE LET e == CHOOSE x \in es : TRUE
         IN m_graph.edges[e].weight + weightSum(es \ {e})

\* the bridges of slot i are the edges of its component outside the spanning
\* tree, each once, and its loss is the weight of its edges inside the tree
LossSplitsOwnEdges(i) ==
    LET b == m_components[i].extra.bridges
    IN /\ Range(b) = {e \in inserted[i].edges : ~isLossEdge[e]}
       /\ \A j, k \in DOMAIN b : j # k => b[j] # b[k]
       /\ m_components[i].extra.loss =
             weightSum({e \in inserted[i].edges : isLossEdge[e]})

removePops(id) == removeInGraph(m_graph, m_nodeOrig, m_components[id + 1]).pops

\* C29: for every stored full component, the walk of remove(id) ends with an
\* empty stack after one pop per node of the component other than the node of
\* start, and the walk of foreachAdjEntry(id, f) ends with an empty stack after
\* one pop per edge of the component (with 2 terminals neither uses a stack);
\* both numbers are below the number of nodes of the component.
C29_WalksEndAfterBoundedPops ==
    \A i \in Slots :
        WellFormed(i) =>
            LET T == Len(terminals(i - 1))
                nodes == T + Cardinality(inserted[i].nodes)
            IN /\ Len(inserted[i].comp.nodes) = nodes
               /\ removePops(i - 1) = IF T = 2 THEN 0 ELSE nodes - 1
               /\ Len(visitedAdjEntries(i - 1)) = Cardinality(inserted[i].edges)
               /\ Len(visitedAdjEntries(i - 1)) = nodes - 1

\* a three-terminal and a four-terminal full component share terminals: remove
\* would pop 3 and 5 nodes, foreachAdjEntry passes 3 and 5 handles
C29_Witness ==
    \E i, j \in Slots :
        /\ WellFormed(i) /\ WellFormed(j)
        /\ Len(terminals(i - 1)) = 3 /\ removePops(i - 1) = 3
        /\ Len(terminals(j - 1)) = 4 /\ removePops(j - 1) = 5
        /\ Len(visitedAdjEntries(j - 1)) = 5
        /\ lastOp.op = "remove"

\* the six availability statuses of the members l
solutionStatuses(l) ==
    <<l.xValStatus, l.barXValStatus, l.yValStatus, l.recoStatus, l.slackStatus,
      l.basisStatus>>

\* C30: a newly constructed LP is Unoptimized, has all six availability statuses
\* Missing and nOpt() = 0; after remRows, remCols or changeRhs the LP is again
\* Unoptimized with all six availability statuses Missing, whatever they were
\* before, and nOpt() is as before.
C30_ModificationResetsStatuses ==
    /\ lastOp.op = "construct" =>
          /\ lp.optStat = "Unoptimized"
          /\ Range(solutionStatuses(lp)) = {"Missing"}
          /\ lp.nOpt = 0
    /\ lastOp.op \in {"remRows", "remCols", "changeRhs"} =>
          /\ lp.optStat = "Unoptimized"
          /\ Range(solutionStatuses(lp)) = {"Missing"}
          /\ lp.nOpt = lastOp.arg.nOpt

\* changeRhs on an LP that was optimized twice, was Optimal and had all six
\* parts of the solution available
C30_Witness ==
    /\ lastOp.op = "changeRhs"
    /\ lastOp.arg.optStat = "Optimal"
    /\ Range(solutionStatuses(lastOp.arg)) = {"Available"}
    /\ lastOp.arg.nOpt = 2
    /\ lp.optStat = "Unoptimized"
    /\ Range(solutionStatuses(lp)) = {"Missing"}

\* the sum of f[i] over the indices i of the sequence f
RECURSIVE sumOver(_)
sumOver(f) == IF f = <<>> THEN 0 ELSE Head(f) + sumOver(Tail(f))

\* C31: in every state reached by inserts and removes of full components, the
\* compact graph has one node per terminal and one per non-terminal node of the
\* input of every live component, and one edge per edge of the input of every
\* live component; its nodes and edges are the terminals' nodes and what the
\* inserts of the live components created, no more and no less.
C31_GraphHoldsLiveComponentsOnly ==
    /\ Cardinality(m_graph.nodes) =
          Len(m_terminals)
            + sumOver([i \in Slots |-> Len(nonTerminalsOf(inserted[i].comp))])
    /\ Cardinality(DOMAIN m_graph.edges) =
          sumOver([i \in Slots |-> Len(inserted[i].comp.edges)])
    /\ m_graph.nodes =
          {m_nodeCopy[t] : t \in Terminals} \cup UNION {inserted[i].nodes : i \in Slots}
    /\ DOMAIN m_graph.edges = UNION {inserted[i].edges : i \in Slots}
    /\ \A i, j \in Slots :
          i # j => /\ inserted[i].nodes \cap inserted[j].nodes = {}
                   /\ inserted[i].edges \cap inserted[j].edges = {}

\* a four-terminal component was removed from between two others: a star and a
\* single edge are left, 5 nodes and 4 edges
C31_Witness ==
    /\ lastOp.op = "remove"
    /\ Len(lastOp.arg.comp.nodes) = 6
    /\ size = 2
    /\ Cardinality(m_graph.nodes) = 5
    /\ Cardinality(DOMAIN m_graph.edges) = 4

\* the slot that the record in slot i after remove(id) had before it: the record
\* of the last slot has moved into the slot of the removed one
slotBefore(i, id) == IF i = id + 1 THEN Len(m_components) ELSE i

\* remove(id) has left the record now in slot i as it was, its start is on an
\* edge of the compact graph, and foreachAdjEntry passes the same handles in
\* the same order as before the removal
SameTraversalAfterRemove(i) ==
    LET old == slotBefore(i, lastOp'.id)
    IN /\ m_components'[i] = m_components[old]
       /\ theEdge(m_components'[i].start) \in DOMAIN m_graph'.edges
       /\ foreachAdjEntry(m_graph', m_nodeOrig', m_components'[i]).visits
             = foreachAdjEntry(m_graph, m_nodeOrig, m_components[old]).visits

\* C32 as stated: after remove(j), for every remaining component, the one moved
\* into slot j included, start is on an edge of the compact graph and
\* foreachAdjEntry passes the same handles in the same order as before.
C32_RemoveKeepsTraversals ==
    [][lastOp'.op = "remove" =>
          \A i \in 1..Len(m_components') : SameTraversalAfterRemove(i)]_vars

\* C32 amended: after remove(j), for every remaining component that has a start
\* handle, the one moved into slot j included, start is on an edge of the
\* compact graph and foreachAdjEntry passes the same handles in the same order
\* as before; a record without start stays without start.
C32_RemoveKeepsTraversalsWithStart ==
    [][lastOp'.op = "remove" =>
          \A i \in 1..Len(m_components') :
              IF m_components[slotBefore(i, lastOp'.id)].start # NoAdj
              THEN SameTraversalAfterRemove(i)
              ELSE m_components'[i] = m_components[slotBefore(i, lastOp'.id)]]_vars

\* the first of three records was removed; the four-terminal record of the last
\* slot, which shares terminals with the removed one, is now in slot 0 with its
\* five handles, beside a record without start
C32_Witness ==
    /\ lastOp.op = "remove"
    /\ lastOp.id = 0
    /\ size = 2
    /\ Len(lastOp.arg.comp.nodes) = 4
    /\ start(1) = NoAdj
    /\ start(0) # NoAdj
    /\ Len(visitedAdjEntries(0)) = 5

\* the sum of the weights in the graph G of the edges of the sequence es
RECURSIVE edgeWeightIn(_, _)
edgeWeightIn(G, es) ==
    IF es = <<>> THEN 0 ELSE G.edges[Head(es)].weight + edgeWeightIn(G, Tail(es))

\* loss plus the summed weights of the bridges of the record in slot i of comps
lossPlusBridges(G, comps, i) ==
    comps[i].extra.loss + edgeWeightIn(G, comps[i].extra.bridges)

\* a call of computeAllLosses() has added again to the loss data of slot i:
\* nothing recorded before is lost
RunAddsAgain(i) ==
    LET old == m_components[i].extra
        new == m_components'[i].extra
    IN /\ new.loss >= old.loss
       /\ Len(new.bridges) >= Len(old.bridges)
       /\ SubSeq(new.bridges, 1, Len(old.bridges)) = old.bridges

\* the call in which calls.loss becomes n leaves loss plus bridge weights of
\* slot i at n times its cost
RunReachesMultiple(i) ==
    lossPlusBridges(m_graph', m_components', i) = calls'.loss * m_components[i].cost

\* the call has changed the loss data of slot i
RunChanges(i) == m_components'[i].extra # m_components[i].extra

terminalCopies(i) == {m_nodeCopy[t] : t \in Range(m_components[i].terminals)}

componentNodes(i) == terminalCopies(i) \cup inserted[i].nodes

\* the edges of the record in slot i that are not among its bridges
nonBridgeEdges(i) ==
    {e \in inserted[i].edges : e \notin Range(m_components[i].extra.bridges)}

\* the nodes joined to a node of S by a path of edges of E
RECURSIVE joined(_, _)
joined(E, S) ==
    LET T == S \cup {v \in m_graph.nodes :
                        \E e \in E : /\ {m_graph.edges[e].source, m_graph.edges[e].target}
                                          \cap S # {}
                                     /\ v \in {m_graph.edges[e].source,
                                               m_graph.edges[e].target}}
    IN IF T = S THEN S ELSE joined(E, T)

\* the trees that the non-bridge edges of slot i form on its nodes
lossTrees(i) == {joined(nonBridgeEdges(i), {v}) : v \in componentNodes(i)}

\* the non-bridge edges of slot i form a forest on its nodes in which every
\* tree holds exactly one terminal of the component
LossForestOneTerminalEach(i) ==
    /\ Cardinality(nonBridgeEdges(i)) + Cardinality(lossTrees(i))
          = Cardinality(componentNodes(i))
    /\ \A t \in lossTrees(i) : Cardinality(t \cap terminalCopies(i)) = 1

\* C34: after one computeAllLosses() on a store of full components whose edge
\* weights are all strictly positive, every component has exactly one bridge
\* less than it has terminals, and its non-bridge edges form a forest in which
\* every tree holds exactly one terminal of the component.
C34_BridgesCutIntoOneTreePerTerminal ==
    (/\ AfterFirstLossRun
     /\ \A i \in Slots : WellFormed(i) /\ PositiveWeights(i))
        => \A i \in Slots :
              /\ Len(m_components[i].extra.bridges) = Len(m_components[i].terminals) - 1
              /\ LossForestOneTerminalEach(i)

\* two full components of positive weights, one of them with four terminals
\* and two non-terminals: three bridges, and two loss edges in four trees
C34_Witness ==
    /\ AfterFirstLossRun
    /\ size >= 2
    /\ \A i \in Slots : WellFormed(i) /\ PositiveWeights(i)
    /\ \E i \in Slots :
          /\ Len(m_components[i].terminals) = 4
          /\ Cardinality(inserted[i].nodes) = 2
          /\ Len(m_components[i].extra.bridges) = 3
          /\ Cardinality(nonBridgeEdges(i)) = 2
          /\ Cardinality(lossTrees(i)) = 4

====
